---- MODULE Spec2Model ----
(***************************************************************************)
(* CommitHelper: the TTL/LRU cache (core/cache.ts), the git remote URL     *)
(* parser (git/parser.ts), the retrying HTTP client (http/client.ts) and   *)
(* the paged issue fetch of the platforms (platforms/gitee.ts, gitlab.ts), *)
(* modelled from the TypeScript sources.                                   *)
(*                                                                         *)
(* Strings the parser inspects character by character are sequences of    *)
(* one-character strings; time is counted in clock ticks.                  *)
(***************************************************************************)
EXTENDS Integers, Sequences, FiniteSets, TLC

VARIABLES
    cache,        \* Cache.cache: the Map, as the sequence of its entries in iteration order
    ttl,          \* Cache.ttl, in clock ticks
    maxSize,      \* Cache.maxSize
    cleanupTimer, \* Cache.cleanupTimer: TRUE while the interval is installed
    now,          \* Date.now(), in clock ticks
    lastOp,       \* the operation that ran last: its argument, its result, the keys a set or a sweep removed
    useOrder,     \* history: the stored keys by their last use (set, get hit), least recently used first
    lastSet,      \* history: per key, time and value of its most recent set
    disposed,     \* history: dispose() has returned
    url,          \* the remote URL handed to GitUrlParser.parse
    parsed,       \* parse has returned
    repoInfo,     \* what parse returned
    retries,      \* requestWithRetry: its retries argument
    loopIndex,    \* requestWithRetry: the loop variable i
    pc,           \* requestWithRetry: where it stands (loop, awaiting, sleeping, returned, thrown)
    req,          \* the request of the current attempt and its response so far
    promise,      \* the promise request() returned for the current attempt
    result,       \* how requestWithRetry ended: the value returned or the error thrown
    attempts,     \* history: per attempt, when it was issued, how and when it was seen to end
    sleeps,       \* history: the delays passed to sleep, in order
    clock,        \* time in milliseconds
    wakeAt,       \* the time the pending setTimeout of sleep is due
    forgeKind,    \* the platform whose fetchIssues runs
    maxIssues,    \* fetchIssues: its maxIssues argument
    perPage,      \* fetchIssues: perPage
    page,         \* fetchIssues: page
    allIssues,    \* fetchIssues: allIssues
    fetchPc,      \* fetchIssues: where it stands (loop, awaiting, done, returned, thrown)
    issuesOut,    \* what fetchIssues returned
    requests,     \* history: the page and per_page of each request, in order
    pageLengths,  \* history: the length of each page received, -1 for a body that is no list
    progress,     \* formatCommitMessage: the cancellable progress around the fetch, its token and its outcome
    issueCache,   \* AppContext.issueCache: the lists stored, by cache key
    serviceCall,  \* the last call of CommitHelperService.fetchIssues or refreshIssues: what it did and how it ended
    settings,     \* the commitHelper settings that hold a non-empty string, and how often they were edited
    environment,  \* the variables of process.env that hold a non-empty string
    tokenCache,   \* per platform, its tokenCache: the tokens stored, by cache key
    tokenCall,    \* the call of getAccessToken that has just returned: its repository, the sources it read, the token
    outgoing,     \* the request a platform's fetchIssues hands to the HTTP client: url, headers, and the token in it
    emitted,      \* the log record HttpClient.request emits for it
    workspace,    \* the git extension: whether its API and a repository are there, and repository.state.remotes
    repoCache,    \* GitRepoManager.cache: the RepoInfo stored, by cache key
    repoCall,     \* the call of getRepoInfo that has just returned: the remote and the URL it read, its result
    inFlight,     \* the calls of CommitHelperService.fetchIssues begun, in the order they began: where each is, its page requests, its record
    commit        \* the commit message being formatted: what the input box held, the choices, the message generated

cacheVars == <<cache, ttl, maxSize, cleanupTimer, now, lastOp, useOrder, lastSet, disposed>>
parserVars == <<url, parsed, repoInfo>>
httpVars == <<retries, loopIndex, pc, req, promise, result, attempts, sleeps, clock, wakeAt>>
fetchVars == <<forgeKind, maxIssues, perPage, page, allIssues, fetchPc, issuesOut, requests, pageLengths, progress>>
serviceVars == <<issueCache, serviceCall>>
tokenVars == <<settings, environment, tokenCache, tokenCall>>
logVars == <<outgoing, emitted>>
repoVars == <<workspace, repoCache, repoCall>>
overlapVars == <<inFlight>>
formatVars == <<commit>>
vars == <<cacheVars, parserVars, httpVars, fetchVars, serviceVars, tokenVars, logVars, repoVars,
          overlapVars, formatVars>>

(***************************************************************************)
(* Bounds of the model                                                     *)
(***************************************************************************)
MaxCap == 2
Ttl == 1
MaxTime == 2
MaxRetries == 2
MaxChunks == 3
MaxSources == 2
MaxEdits == 1
MaxRemotes == 2
MaxCalls == 2
MaxPages == 2

Keys == {"a", "b", "c"}
Values == {"v1", "v2"}
Undefined == "undefined"
NoKey == "-"

(***************************************************************************)
(* Map<string, CacheEntry>: insertion-ordered                              *)
(***************************************************************************)
KeysOf(c) == [i \in 1..Len(c) |-> c[i].key]

KeySet(c) == {c[i].key : i \in 1..Len(c)}

MapHas(c, k) == \E i \in 1..Len(c) : c[i].key = k

MapGet(c, k) == c[CHOOSE i \in 1..Len(c) : c[i].key = k]

MapDelete(c, k) == SelectSeq(c, LAMBDA e : e.key # k)

\* Map.set: an existing key keeps its position, a new key goes last
MapSet(c, k, d, ts) ==
    IF MapHas(c, k)
    THEN [i \in 1..Len(c) |-> IF c[i].key = k THEN [key |-> k, data |-> d, timestamp |-> ts] ELSE c[i]]
    ELSE Append(c, [key |-> k, data |-> d, timestamp |-> ts])

ExpiredAtTtl(e, t, tl) == t - e.timestamp >= tl

\* the expiry test of get, has and cleanup
Expired(e, t, tl) == t - e.timestamp > tl

(***************************************************************************)
(* Cache methods, as functions of the map                                  *)
(***************************************************************************)
SetKeepExisting(c, k) == c

\* set, lines 126-128: an existing key is deleted first
SetRemoveExisting(c, k) == IF MapHas(c, k) THEN MapDelete(c, k) ELSE c

SetEvictWhenOver(c, max) ==
    IF Len(c) > max
    THEN IF Len(c) > 0 THEN MapDelete(c, c[1].key) ELSE c
    ELSE c

\* set, lines 131-136: at capacity the first key of the iteration order is deleted
SetEvict(c, max) ==
    IF Len(c) >= max
    THEN IF Len(c) > 0 THEN MapDelete(c, c[1].key) ELSE c
    ELSE c

CacheSet(c, k, d, t, max) == MapSet(SetEvict(SetRemoveExisting(c, k), max), k, d, t)

GetCacheInPlace(c, k, t, tl) ==
    IF ~MapHas(c, k) THEN c
    ELSE IF Expired(MapGet(c, k), t, tl) THEN MapDelete(c, k)
    ELSE c

GetCacheRenewing(c, k, t, tl) ==
    IF ~MapHas(c, k) THEN c
    ELSE IF Expired(MapGet(c, k), t, tl) THEN MapDelete(c, k)
    ELSE MapSet(MapDelete(c, k), k, MapGet(c, k).data, t)

\* get: the map after the call
GetCache(c, k, t, tl) ==
    IF ~MapHas(c, k) THEN c
    ELSE IF Expired(MapGet(c, k), t, tl) THEN MapDelete(c, k)
    ELSE MapSet(MapDelete(c, k), k, MapGet(c, k).data, MapGet(c, k).timestamp)

\* get: the value returned
GetResult(c, k, t, tl) ==
    IF ~MapHas(c, k) THEN Undefined
    ELSE IF Expired(MapGet(c, k), t, tl) THEN Undefined
    ELSE MapGet(c, k).data

HasCacheTouching(c, k, t, tl) ==
    IF ~MapHas(c, k) THEN c
    ELSE IF Expired(MapGet(c, k), t, tl) THEN MapDelete(c, k)
    ELSE MapSet(MapDelete(c, k), k, MapGet(c, k).data, MapGet(c, k).timestamp)

\* has: the map after the call
HasCache(c, k, t, tl) ==
    IF ~MapHas(c, k) THEN c
    ELSE IF Expired(MapGet(c, k), t, tl) THEN MapDelete(c, k)
    ELSE c

\* has: the value returned
HasResult(c, k, t, tl) ==
    IF ~MapHas(c, k) THEN "false"
    ELSE IF Expired(MapGet(c, k), t, tl) THEN "false"
    ELSE "true"

ClearCacheButNewest(c) == IF Len(c) > 1 THEN <<c[Len(c)]>> ELSE <<>>

\* clear
ClearCache(c) == <<>>

\* cleanup: the for-of loop over entries(), from position i on, deleting as it goes
RECURSIVE CleanupFrom(_, _, _, _)
CleanupFrom(c, i, t, tl) ==
    IF i > Len(c) THEN c
    ELSE IF Expired(c[i], t, tl)
         THEN CleanupFrom(MapDelete(c, c[i].key), i, t, tl)
         ELSE CleanupFrom(c, i + 1, t, tl)

\* an index-based loop that steps past the entry following each deletion
RECURSIVE CleanupSkippingFrom(_, _, _, _)
CleanupSkippingFrom(c, i, t, tl) ==
    IF i > Len(c) THEN c
    ELSE IF Expired(c[i], t, tl)
         THEN CleanupSkippingFrom(MapDelete(c, c[i].key), i + 1, t, tl)
         ELSE CleanupSkippingFrom(c, i + 1, t, tl)

CleanupSkipping(c, t, tl) == CleanupSkippingFrom(c, 1, t, tl)

Cleanup(c, t, tl) == CleanupFrom(c, 1, t, tl)

DisposeTimerKept(timer) == timer

\* dispose, lines 200-203: the interval is cleared
DisposeTimer(timer) == FALSE


(***************************************************************************)
(* Strings                                                                 *)
(***************************************************************************)
CharAt(s, i) == SubSeq(s, i, i)

From(s, i) == SubSeq(s, i, Len(s))

StartsWith(s, p) == Len(s) >= Len(p) /\ SubSeq(s, 1, Len(p)) = p

EndsWith(s, p) == Len(s) >= Len(p) /\ SubSeq(s, Len(s) - Len(p) + 1, Len(s)) = p

\* String.prototype.includes
Includes(s, p) == \E i \in 1..(Len(s) - Len(p) + 1) : SubSeq(s, i, i + Len(p) - 1) = p

\* the position of the first character of s that is in stop, Len(s) + 1 if none
FirstIn(s, stop) ==
    IF \E i \in 1..Len(s) : CharAt(s, i) \in stop
    THEN CHOOSE i \in 1..Len(s) :
            /\ CharAt(s, i) \in stop
            /\ \A j \in 1..(i - 1) : CharAt(s, j) \notin stop
    ELSE Len(s) + 1

\* the position of the first character of s that is not in run, Len(s) + 1 if none
FirstNotIn(s, run) ==
    IF \E i \in 1..Len(s) : CharAt(s, i) \notin run
    THEN CHOOSE i \in 1..Len(s) :
            /\ CharAt(s, i) \notin run
            /\ \A j \in 1..(i - 1) : CharAt(s, j) \in run
    ELSE Len(s) + 1

Digits == {"0", "1", "2", "3", "4", "5", "6", "7", "8", "9"}

\* the characters the regular expression's . does not match
LineTerminators == {"\n", "\r"}

(***************************************************************************)
(* URL_PATTERNS                                                            *)
(***************************************************************************)
NoMatch == [ok |-> FALSE]

\* (.+?)(?:\.git)?$ : the lazy group stops before a final .git
RepoGroup(rest) ==
    IF Len(rest) > 4 /\ EndsWith(rest, ".git") THEN SubSeq(rest, 1, Len(rest) - 4) ELSE rest

\* ([^\/]+)\/(.+?)(?:\.git)?$ : the tail every pattern shares
OwnerRepo(rest) ==
    LET slash == FirstIn(rest, {"/"})
        tail == From(rest, slash + 1)
    IN  IF /\ slash > 1
           /\ slash <= Len(rest)
           /\ Len(tail) > 0
           /\ \A i \in 1..Len(tail) : CharAt(tail, i) \notin LineTerminators
        THEN [ok |-> TRUE, owner |-> SubSeq(rest, 1, slash - 1), repo |-> RepoGroup(tail)]
        ELSE NoMatch

\* /^(https?:\/\/([^\/]+))\/([^\/]+)\/(.+?)(?:\.git)?$/
MatchHttps(u) ==
    LET scheme == IF StartsWith(u, "https://") THEN "https://"
                  ELSE IF StartsWith(u, "http://") THEN "http://" ELSE ""
        rest == From(u, Len(scheme) + 1)
        slash == FirstIn(rest, {"/"})
        tail == OwnerRepo(From(rest, slash + 1))
    IN  IF scheme # "" /\ slash > 1 /\ slash <= Len(rest) /\ tail.ok
        THEN [ok |-> TRUE, fullHostUrl |-> scheme \o SubSeq(rest, 1, slash - 1),
              hostname |-> SubSeq(rest, 1, slash - 1), owner |-> tail.owner, repo |-> tail.repo]
        ELSE NoMatch

\* /^ssh:\/\/git@([^:\/]+):(\d+)\/([^\/]+)\/(.+?)(?:\.git)?$/
MatchSshWithPort(u) ==
    LET rest == From(u, Len("ssh://git@") + 1)
        colon == FirstIn(rest, {":", "/"})
        afterColon == From(rest, colon + 1)
        slash == FirstNotIn(afterColon, Digits)
        tail == OwnerRepo(From(afterColon, slash + 1))
    IN  IF /\ StartsWith(u, "ssh://git@")
           /\ colon > 1 /\ colon <= Len(rest) /\ CharAt(rest, colon) = ":"
           /\ slash > 1 /\ slash <= Len(afterColon) /\ CharAt(afterColon, slash) = "/"
           /\ tail.ok
        THEN [ok |-> TRUE, hostname |-> SubSeq(rest, 1, colon - 1),
              port |-> SubSeq(afterColon, 1, slash - 1), owner |-> tail.owner, repo |-> tail.repo]
        ELSE NoMatch

\* /^git@([^:]+):([^\/]+)\/(.+?)(?:\.git)?$/
MatchSshStandard(u) ==
    LET rest == From(u, Len("git@") + 1)
        colon == FirstIn(rest, {":"})
        tail == OwnerRepo(From(rest, colon + 1))
    IN  IF StartsWith(u, "git@") /\ colon > 1 /\ colon <= Len(rest) /\ tail.ok
        THEN [ok |-> TRUE, hostname |-> SubSeq(rest, 1, colon - 1),
              owner |-> tail.owner, repo |-> tail.repo]
        ELSE NoMatch

\* /^ssh:\/\/git@([^\/]+)\/([^\/]+)\/(.+?)(?:\.git)?$/
MatchSshNoPort(u) ==
    LET rest == From(u, Len("ssh://git@") + 1)
        slash == FirstIn(rest, {"/"})
        tail == OwnerRepo(From(rest, slash + 1))
    IN  IF StartsWith(u, "ssh://git@") /\ slash > 1 /\ slash <= Len(rest) /\ tail.ok
        THEN [ok |-> TRUE, hostname |-> SubSeq(rest, 1, slash - 1),
              owner |-> tail.owner, repo |-> tail.repo]
        ELSE NoMatch

(***************************************************************************)
(* GitUrlParser                                                            *)
(***************************************************************************)
KNOWN_PLATFORMS == {"github.com", "gitlab.com", "gitee.com"}

\* parse returned null
Null == [platform |-> "null"]

RepoInfo(platform, owner, repo, baseUrl, hostUrl) ==
    [platform |-> platform, owner |-> owner, repo |-> repo, baseUrl |-> baseUrl, hostUrl |-> hostUrl]

isKnownPlatform(hostname) == \E p \in KNOWN_PLATFORMS : Includes(hostname, p)

isInternalAddressNarrow(hostname) ==
    \/ StartsWith(hostname, "192.168.")
    \/ StartsWith(hostname, "10.")
    \/ StartsWith(hostname, "172.16.")
    \/ hostname = "localhost"

\* /^192\.168\./, /^10\./, /^172\.(1[6-9]|2[0-9]|3[0-1])\./, 'localhost'
isInternalAddress(hostname) ==
    \/ StartsWith(hostname, "192.168.")
    \/ StartsWith(hostname, "10.")
    \/ /\ StartsWith(hostname, "172.")
       /\ \/ CharAt(hostname, 5) = "1" /\ CharAt(hostname, 6) \in {"6", "7", "8", "9"}
          \/ CharAt(hostname, 5) = "2" /\ CharAt(hostname, 6) \in Digits
          \/ CharAt(hostname, 5) = "3" /\ CharAt(hostname, 6) \in {"0", "1"}
       /\ CharAt(hostname, 7) = "."
    \/ hostname = "localhost"

createRepoInfo(hostname, owner, repo, hostUrl) ==
    IF Includes(hostname, "github.com")
    THEN RepoInfo("github", owner, repo, "https://api.github.com", hostUrl)
    ELSE IF Includes(hostname, "gitlab.com")
    THEN RepoInfo("gitlab", owner, repo, "https://gitlab.com/api/v4", hostUrl)
    ELSE IF Includes(hostname, "gitee.com")
    THEN RepoInfo("gitee", owner, repo, "https://gitee.com/api/v5", hostUrl)
    ELSE RepoInfo("local-gitlab", owner, repo, hostUrl \o "/api/v4", hostUrl)

KnownHostUrlPlain(hostname) == "http://" \o hostname

\* `https://${hostname}`, the host URL the SSH forms give a known platform
KnownHostUrl(hostname) == "https://" \o hostname

\* the protocol of a self-hosted instance
Protocol(hostname) == IF isInternalAddress(hostname) THEN "http" ELSE "https"

WebPortKept(port) == ":" \o port

WebPortDropped(port) == ""

\* port === '2222' ? '' : `:${port}`
WebPort(port) == IF port = "2222" THEN "" ELSE ":" \o port

LocalGitlab(owner, repo, hostUrl) ==
    RepoInfo("local-gitlab", owner, repo, hostUrl \o "/api/v4", hostUrl)

parseHttps(u) ==
    LET m == MatchHttps(u)
    IN  IF ~m.ok THEN Null
        ELSE createRepoInfo(m.hostname, m.owner, m.repo, m.fullHostUrl)

parseSshWithPort(u) ==
    LET m == MatchSshWithPort(u)
    IN  IF ~m.ok THEN Null
        ELSE IF isKnownPlatform(m.hostname)
        THEN createRepoInfo(m.hostname, m.owner, m.repo, KnownHostUrl(m.hostname))
        ELSE LocalGitlab(m.owner, m.repo, Protocol(m.hostname) \o "://" \o m.hostname \o WebPort(m.port))

parseSshStandard(u) ==
    LET m == MatchSshStandard(u)
    IN  IF ~m.ok THEN Null
        ELSE IF isKnownPlatform(m.hostname)
        THEN createRepoInfo(m.hostname, m.owner, m.repo, KnownHostUrl(m.hostname))
        ELSE LocalGitlab(m.owner, m.repo, Protocol(m.hostname) \o "://" \o m.hostname)

parseSshNoPort(u) ==
    LET m == MatchSshNoPort(u)
    IN  IF ~m.ok THEN Null
        ELSE IF isKnownPlatform(m.hostname)
        THEN createRepoInfo(m.hostname, m.owner, m.repo, KnownHostUrl(m.hostname))
        ELSE LocalGitlab(m.owner, m.repo, Protocol(m.hostname) \o "://" \o m.hostname)

parseNoPortFirst(u) ==
    IF parseHttps(u) # Null THEN parseHttps(u)
    ELSE IF parseSshNoPort(u) # Null THEN parseSshNoPort(u)
    ELSE IF parseSshWithPort(u) # Null THEN parseSshWithPort(u)
    ELSE IF parseSshStandard(u) # Null THEN parseSshStandard(u)
    ELSE Null

parseGuessing(u) ==
    IF parseHttps(u) # Null THEN parseHttps(u)
    ELSE IF parseSshWithPort(u) # Null THEN parseSshWithPort(u)
    ELSE IF parseSshStandard(u) # Null THEN parseSshStandard(u)
    ELSE IF parseSshNoPort(u) # Null THEN parseSshNoPort(u)
    ELSE LocalGitlab("", "", "https://" \o u)

\* parse: the four forms in order, the first that matches decides
parse(u) ==
    IF parseHttps(u) # Null THEN parseHttps(u)
    ELSE IF parseSshWithPort(u) # Null THEN parseSshWithPort(u)
    ELSE IF parseSshStandard(u) # Null THEN parseSshStandard(u)
    ELSE IF parseSshNoPort(u) # Null THEN parseSshNoPort(u)
    ELSE Null

(***************************************************************************)
(* Remote URLs the parser is run on                                        *)
(***************************************************************************)
Hosts == {"github.com", "gitlab.com", "gitee.com", "my.gitlab.com", "git.example.com",
          "192.168.1.50", "10.0.0.5", "172.16.0.1", "172.31.9.9", "172.32.0.1", "localhost",
          "10.example.com"}

Ports == {"22", "2222", "8022"}

Paths == {"acme/widget", "acme/widget.git", "acme/tools/widget.git"}

HttpsUrls == {s \o h \o "/" \o p : s \in {"http://", "https://"}, h \in Hosts, p \in Paths}

SshWithPortUrls == {"ssh://git@" \o h \o ":" \o n \o "/" \o p : h \in Hosts, n \in Ports, p \in Paths}

SshStandardUrls == {"git@" \o h \o ":" \o p : h \in Hosts, p \in Paths}

SshNoPortUrls == {"ssh://git@" \o h \o "/" \o p : h \in Hosts, p \in Paths}

UnrecognizedUrls == {"", "github.com/acme/widget", "ftp://github.com/acme/widget.git",
                     "https://github.com/acme", "git@github.com/acme/widget.git",
                     "ssh://git@github.com:acme/widget.git", "https://github.com/acme/widget\n",
                     "git@github.com:acme", "ssh://git@:22/acme/widget", "https:///acme/widget",
                     "ssh://git@git.example.com:22x/acme", "not a url"}

RemoteUrls == HttpsUrls \cup SshWithPortUrls \cup SshStandardUrls \cup SshNoPortUrls \cup UnrecognizedUrls

(***************************************************************************)
(* HttpClient: one request and its promise                                 *)
(***************************************************************************)
\* this.maxResponseSize
MaxResponseSize == 10 * 1024 * 1024

\* data.substring(0, 500)
SnippetLength == 500

\* 1000 * (i + 1)
BackoffBase == 1000

\* res.statusCode as the server sends it (0: no status code), with its res.statusMessage
StatusMessage ==
    [s \in {0, 199, 200, 299, 300} |->
        CASE s = 200 -> "OK" [] s = 300 -> "Multiple Choices" [] OTHER -> ""]

StatusCodes == DOMAIN StatusMessage

\* chunk.length of the chunks a response body arrives in
ChunkSizes == {1, SnippetLength, MaxResponseSize}

\* error.code of the errors the socket reports
ErrorCodes == {"ECONNRESET"}

Pending == [state |-> "pending"]
Resolved(value) == [state |-> "resolved", value |-> value]
Rejected(error) == [state |-> "rejected", value |-> error]

\* resolve and reject of a promise: the first call settles it, later calls do nothing
Settle(p, outcome) == IF p.state = "pending" THEN outcome ELSE p

TooLarge == [kind |-> "too large"]
TimedOut == [kind |-> "timeout"]
ParseError == [kind |-> "parse"]
RetryFailed == [kind |-> "retry failed"]
NetworkError(code) == [kind |-> "network", code |-> code]

\* `HTTP ${res.statusCode}: ${res.statusMessage}\n${data.substring(0, 500)}`, the body by its length
StatusError(statusCode, length) ==
    [kind |-> "status", statusCode |-> statusCode, statusMessage |-> StatusMessage[statusCode],
     body |-> IF length < SnippetLength THEN length ELSE SnippetLength]

\* JSON.parse(data), the body by its length
ParsedBody(length) == [json |-> length]

ExceedsFromLimit(totalLength) == totalLength >= MaxResponseSize

\* totalLength > this.maxResponseSize
Exceeds(totalLength) == totalLength > MaxResponseSize

\* !(!res.statusCode || res.statusCode < 200 || res.statusCode >= 300)
IsSuccess(statusCode) == ~(statusCode = 0 \/ statusCode < 200 \/ statusCode >= 300)

\* client.request(requestOptions, ...) ... req.end()
NewRequest ==
    [phase |-> "sent", statusCode |-> 0, totalLength |-> 0, chunks |-> 0,
     destroyed |-> FALSE, timedOut |-> FALSE, parsed |-> "none"]

NoRequest == [phase |-> "none"]

sleepMsFlat(index) == BackoffBase

\* this.sleep(1000 * (i + 1))
sleepMs(index) == BackoffBase * (index + 1)

requestWithRetryDefaultsMore == [retries |-> 3]

\* requestWithRetry(url, options = {}, retries = 2)
requestWithRetryDefaults == [retries |-> 2]

LastAttemptEarly(index, allowed) == index + 1 >= allowed

\* i === retries
LastAttempt(index, allowed) == index = allowed

InitHttpIdle ==
    /\ retries = 0
    /\ loopIndex = 0
    /\ pc = "idle"
    /\ req = NoRequest
    /\ promise = Pending
    /\ result = Pending
    /\ attempts = <<>>
    /\ sleeps = <<>>
    /\ clock = 0
    /\ wakeAt = 0

(***************************************************************************)
(* IPlatform.fetchIssues of GiteePlatform and GitLabPlatform               *)
(***************************************************************************)
\* Math.min(maxIssues, 50)
PageCap == 50

Min(a, b) == IF a < b THEN a ELSE b

\* the n-th open issue of the repository as the forge's API lists it
RawIssue(n) ==
    [id |-> 1000 + n, iid |-> n, number |-> n, title |-> <<"title", n>>, state |-> "open",
     html_url |-> <<"html", n>>, web_url |-> <<"web", n>>]

\* issues.map(issue => ({ id, title, number, state, url }))
ConvertIssue(forge, issue) ==
    IF forge = "gitee"
    THEN [id |-> issue.id, title |-> issue.title, number |-> issue.number,
          state |-> issue.state, url |-> issue.html_url]
    ELSE [id |-> issue.iid, title |-> issue.title, number |-> issue.iid,
          state |-> issue.state, url |-> issue.web_url]

SliceAll(list, end) == list

\* list.slice(0, end)
Slice(list, end) ==
    IF end >= 0
    THEN SubSeq(list, 1, Min(end, Len(list)))
    ELSE SubSeq(list, 1, IF Len(list) + end > 0 THEN Len(list) + end ELSE 0)

MoreWantedAtLimit(count, wanted) == count <= wanted

\* allIssues.length < maxIssues
MoreWanted(count, wanted) == count < wanted

\* issues.length < perPage
ShortPage(length, asked) == length < asked

NextPageSkipping(current) == current + 2

\* page++
NextPage(current) == current + 1

\* vscode.window.withProgress({ cancellable: true }, async (progress, token) => ...)
NoProgress == [isCancellationRequested |-> FALSE, requestsAtCancel |-> 0, outcome |-> "pending"]

InitFetchIdle ==
    /\ forgeKind = "gitee"
    /\ maxIssues = 0
    /\ perPage = 0
    /\ page = 1
    /\ allIssues = <<>>
    /\ fetchPc = "idle"
    /\ issuesOut = <<>>
    /\ requests = <<>>
    /\ pageLengths = <<>>
    /\ progress = NoProgress

(***************************************************************************)
(* PlatformFactory and CommitHelperService                                 *)
(***************************************************************************)
\* this.platforms, by the names it is filled with
RegisteredPlatforms == <<"github", "gitlab", "local-gitlab", "gitee">>

getPlatformDefaulting(platformName) ==
    IF \E n \in 1..Len(RegisteredPlatforms) : RegisteredPlatforms[n] = platformName
    THEN platformName
    ELSE RegisteredPlatforms[1]

\* PlatformFactory.getPlatform: the platform registered under the name, by its name, or null
getPlatform(platformName) ==
    IF \E n \in 1..Len(RegisteredPlatforms) : RegisteredPlatforms[n] = platformName
    THEN platformName
    ELSE "null"

\* `${repoInfo.platform}-${repoInfo.owner}-${repoInfo.repo}`
IssueCacheKey(info) == info.platform \o "-" \o info.owner \o "-" \o info.repo

HasTokenDefined(accessToken) == accessToken # Undefined

\* !(!accessToken): undefined and the empty string are no token
HasToken(accessToken) == accessToken \notin {Undefined, ""}

\* the list platform.fetchIssues returns for a repository: whose issues, and how many
IssuesOf(info, fetched) ==
    [of |-> <<info.platform, info.owner, info.repo>>, length |-> IF fetched = "no issues" THEN 0 ELSE 2]

IsCachedWhenNonEmpty(cached) == cached.length > 0

\* if (cached): an array is truthy, the empty one too
IsCached(cached) == TRUE

Unsupported(info) == [kind |-> "unsupported platform", platform |-> info.platform]
MissingToken(info) == [kind |-> "missing token", platform |-> info.platform]
FetchFailed == [kind |-> "fetch failed"]
Issues(list) == [kind |-> "issues", list |-> list]

\* CommitHelperService.fetchIssues on the issue cache `stored`: the cache and the record of the call
\* accessToken: what platform.getAccessToken resolves to;
\* fetched: platform.fetchIssues throws, returns the empty list, returns issues
ServiceFetch(stored, info, accessToken, fetched) ==
    LET cacheKey == IssueCacheKey(info)
        call == [info |-> info, hit |-> FALSE, tokenAsked |-> FALSE, token |-> Undefined,
                 requested |-> FALSE, wrote |-> FALSE]
    IN  IF cacheKey \in DOMAIN stored /\ IsCached(stored[cacheKey])
        THEN [cache |-> stored,
              call |-> [call EXCEPT !.hit = TRUE] @@ [result |-> Issues(stored[cacheKey])]]
        ELSE IF getPlatform(info.platform) = "null"
        THEN [cache |-> stored, call |-> call @@ [result |-> Unsupported(info)]]
        ELSE IF ~HasToken(accessToken)
        THEN [cache |-> stored,
              call |-> [call EXCEPT !.tokenAsked = TRUE, !.token = accessToken]
                       @@ [result |-> MissingToken(info)]]
        ELSE IF fetched = "throws"
        THEN [cache |-> stored,
              call |-> [call EXCEPT !.tokenAsked = TRUE, !.token = accessToken, !.requested = TRUE]
                       @@ [result |-> FetchFailed]]
        ELSE [cache |-> [k \in DOMAIN stored \cup {cacheKey} |->
                            IF k = cacheKey THEN IssuesOf(info, fetched) ELSE stored[k]],
              call |-> [call EXCEPT !.tokenAsked = TRUE, !.token = accessToken, !.requested = TRUE,
                                    !.wrote = TRUE]
                       @@ [result |-> Issues(IssuesOf(info, fetched))]]

NoCall == [op |-> "none"]

InitServiceIdle ==
    /\ issueCache = <<>>
    /\ serviceCall = NoCall

(***************************************************************************)
(* Access tokens: getAccessToken of the platforms                          *)
(***************************************************************************)
\* the string a setting or an environment variable holds: each source its own
TokenOf(name) == "<" \o name \o ">"

NoRead == [token |-> Undefined, consulted |-> <<>>]

OrElseUnread(read, present, name) ==
    [token |-> IF name \in present THEN TokenOf(name) ELSE read.token,
     consulted |-> Append(read.consulted, name)]

\* read || config.get(name), read || process.env[name]: the source is read only when nothing is held yet
OrElse(read, present, name) ==
    IF read.token # Undefined
    THEN read
    ELSE [token |-> IF name \in present THEN TokenOf(name) ELSE Undefined,
          consulted |-> Append(read.consulted, name)]

RECURSIVE FirstOf(_, _, _)
\* the sources of the list are read in order up to the first that holds a string
FirstOf(read, present, names) ==
    IF names = <<>> THEN read ELSE FirstOf(OrElse(read, present, Head(names)), present, Tail(names))

\* the first position at or after `from` where `part` occurs in the string, 0 when it does not
IndexOf(str, part, from) ==
    LET found == {p \in from..(Len(str) - Len(part) + 1) : SubSeq(str, p, p + Len(part) - 1) = part}
    IN  IF found = {} THEN 0 ELSE CHOOSE p \in found : \A q \in found : p <= q

\* new URL(hostUrl).hostname of scheme://host[:port][/path]; Undefined when the constructor throws
Hostname(hostUrl) ==
    LET sep == IndexOf(hostUrl, "://", 1)
        rest == SubSeq(hostUrl, sep + 3, Len(hostUrl))
        colon == IndexOf(rest, ":", 1)
        slash == IndexOf(rest, "/", 1)
        stop == IF colon = 0 THEN slash ELSE IF slash = 0 THEN colon ELSE IF colon < slash THEN colon ELSE slash
    IN  IF sep = 0 THEN Undefined
        ELSE IF stop = 0 THEN rest
        ELSE SubSeq(rest, 1, stop - 1)

configKeysReversed(hostname) ==
    <<"tokens." \o hostname,
      "gitlab." \o hostname \o ".token",
      "localGitlabToken." \o hostname,
      "gitlabToken." \o hostname>>

\* getTokenForHost: configKeys
configKeys(hostname) ==
    <<"gitlabToken." \o hostname,
      "localGitlabToken." \o hostname,
      "gitlab." \o hostname \o ".token",
      "tokens." \o hostname>>

\* GitLabPlatform.getTokenForHost, called when `read` holds no token
getTokenForHost(read, present, hostUrl) ==
    IF Hostname(hostUrl) = Undefined
    THEN read
    ELSE FirstOf(read, present, configKeys(Hostname(hostUrl)))

\* the GitHub platform: its explicit setting, then its environment variable
GithubSources == <<"githubToken", "GITHUB_TOKEN">>

\* the token the platform resolves when its cache holds none, and the sources it reads for it
\* gitee: config.get('giteeToken') || process.env.GITEE_TOKEN
\* local-gitlab: config.get('localGitlabToken') || process.env.LOCAL_GITLAB_TOKEN,
\*     if (!token) config.get('gitlabToken') || process.env.GITLAB_TOKEN,
\*     if (!token && repoInfo.hostUrl) getTokenForHost(repoInfo.hostUrl)
\* gitlab: config.get('gitlabToken') || process.env.GITLAB_TOKEN
ResolveToken(platformName, hostUrl, present) ==
    IF platformName = "gitee" THEN FirstOf(NoRead, present, <<"giteeToken", "GITEE_TOKEN">>)
    ELSE IF platformName = "github" THEN FirstOf(NoRead, present, GithubSources)
    ELSE IF platformName = "local-gitlab"
    THEN LET own == FirstOf(NoRead, present, <<"localGitlabToken", "LOCAL_GITLAB_TOKEN">>)
             generic == FirstOf(own, present, <<"gitlabToken", "GITLAB_TOKEN">>)
         IN  IF generic.token = Undefined /\ hostUrl \notin {Undefined, ""}
             THEN getTokenForHost(generic, present, hostUrl)
             ELSE generic
    ELSE FirstOf(NoRead, present, <<"gitlabToken", "GITLAB_TOKEN">>)

\* the GitHub platform: one entry per (forgeKind, hostUrl)
GithubTokenCacheKey(hostUrl) == "token-github-" \o hostUrl

TokenCacheKeyPerPlatform(platformName, hostUrl) == "token-" \o platformName

\* cacheKey of getAccessToken: gitee `token-${this.name}`,
\* gitlab and local-gitlab `token-${this.name}-${repoInfo.hostUrl || 'default'}`
TokenCacheKey(platformName, hostUrl) ==
    IF platformName = "gitee" THEN "token-" \o platformName
    ELSE IF platformName = "github" THEN GithubTokenCacheKey(hostUrl)
    ELSE "token-" \o platformName \o "-" \o (IF hostUrl \in {Undefined, ""} THEN "default" ELSE hostUrl)

GetTokenStoringAll(stored, platformName, hostUrl, present) ==
    LET cacheKey == TokenCacheKey(platformName, hostUrl)
        read == ResolveToken(platformName, hostUrl, present)
        call == [platform |-> platformName, hostUrl |-> hostUrl, key |-> cacheKey]
    IN  IF cacheKey \in DOMAIN stored /\ stored[cacheKey].token # Undefined
        THEN [cache |-> stored,
              call |-> call @@ [hit |-> TRUE, consulted |-> <<>>, token |-> stored[cacheKey].token]]
        ELSE [cache |-> [k \in DOMAIN stored \cup {cacheKey} |->
                            IF k = cacheKey
                            THEN [token |-> read.token, by |-> <<platformName, hostUrl>>]
                            ELSE stored[k]],
              call |-> call @@ [hit |-> FALSE, consulted |-> read.consulted, token |-> read.token]]

\* getAccessToken of the platform on its token cache `stored`: the cache and the record of the call;
\* an entry keeps, as history, the repository whose call stored it
GetToken(stored, platformName, hostUrl, present) ==
    LET cacheKey == TokenCacheKey(platformName, hostUrl)
        read == ResolveToken(platformName, hostUrl, present)
        call == [platform |-> platformName, hostUrl |-> hostUrl, key |-> cacheKey]
    IN  IF cacheKey \in DOMAIN stored
        THEN [cache |-> stored,
              call |-> call @@ [hit |-> TRUE, consulted |-> <<>>, token |-> stored[cacheKey].token]]
        ELSE IF read.token # Undefined
        THEN [cache |-> [k \in DOMAIN stored \cup {cacheKey} |->
                            IF k = cacheKey
                            THEN [token |-> read.token, by |-> <<platformName, hostUrl>>]
                            ELSE stored[k]],
              call |-> call @@ [hit |-> FALSE, consulted |-> read.consulted, token |-> read.token]]
        ELSE [cache |-> stored,
              call |-> call @@ [hit |-> FALSE, consulted |-> read.consulted, token |-> Undefined]]

TokenPlatforms == {"github", "gitlab", "local-gitlab", "gitee"}

NoTokenCall == [platform |-> "none"]

\* no platform is constructed and no source is set
InitTokenIdle ==
    /\ settings = [set |-> {}, edits |-> 0]
    /\ environment = {}
    /\ tokenCache = <<>>
    /\ tokenCall = NoTokenCall

(***************************************************************************)
(* The log record of an outgoing request                                   *)
(***************************************************************************)
\* [^stops]*: the number of characters from position `from` on that are none of `stops`
RunLength(str, from, stops) ==
    LET stopped == {p \in from..Len(str) : SubSeq(str, p, p) \in stops}
    IN  IF stopped = {} THEN Len(str) - from + 1
        ELSE (CHOOSE p \in stopped : \A q \in stopped : p <= q) - from

RECURSIVE Redact(_, _, _, _)
\* str.replace(/prefix[^stops]+/g, 'prefix***'), from position `from` on:
\* the leftmost match at or after `from` is replaced, and the search goes on behind it
Redact(str, prefix, stops, from) ==
    LET matches == {p \in from..(Len(str) - Len(prefix)) :
                       /\ SubSeq(str, p, p + Len(prefix) - 1) = prefix
                       /\ RunLength(str, p + Len(prefix), stops) > 0}
        at == CHOOSE p \in matches : \A q \in matches : p <= q
    IN  IF matches = {} THEN SubSeq(str, from, Len(str))
        ELSE SubSeq(str, from, at - 1) \o prefix \o "***"
                \o Redact(str, prefix, stops, at + Len(prefix) + RunLength(str, at + Len(prefix), stops))

sanitizeUrlBearerOnly(u) == Redact(u, "Bearer ", {",", "}"}, 1)

\* HttpClient.sanitizeUrl
sanitizeUrl(u) == Redact(Redact(u, "token=", {"&"}, 1), "Bearer ", {",", "}"}, 1)

\* the url and the headers of a page request of fetchIssues
\* gitee: the token is a query parameter; gitlab and local-gitlab: an Authorization header
PageRequest(info, accessToken, pageNo, perPageNo) ==
    IF info.platform = "gitee"
    THEN [url |-> "https://gitee.com/api/v5/repos/" \o info.owner \o "/" \o info.repo
                    \o "/issues?state=open&access_token=" \o accessToken
                    \o "&page=" \o ToString(pageNo) \o "&per_page=" \o ToString(perPageNo),
          headers |-> [Accept |-> "application/json", UserAgent |-> "VSCode-CommitHelper"],
          accessToken |-> accessToken]
    ELSE [url |-> info.baseUrl \o "/projects/" \o info.owner \o "%2F" \o info.repo
                    \o "/issues?state=opened&page=" \o ToString(pageNo)
                    \o "&per_page=" \o ToString(perPageNo),
          headers |-> [Authorization |-> "Bearer " \o accessToken, ContentType |-> "application/json"],
          accessToken |-> accessToken]

\* this.logger.log('发起HTTP请求', {url, method, hostname, keepAlive})
LogRecord(request) ==
    [url |-> sanitizeUrl(request.url), method |-> "GET", hostname |-> Hostname(request.url),
     keepAlive |-> "true"]

NoRequestYet == [url |-> ""]
NoRecord == [url |-> ""]

InitLogIdle ==
    /\ outgoing = NoRequestYet
    /\ emitted = NoRecord

(***************************************************************************)
(* GitRepoManager.getRepoInfo                                              *)
(***************************************************************************)
SelectFirstRemote(remoteList) == 1

\* remotes.find(r => r.name === 'origin') || remotes[0], as a position in the list
SelectRemote(remoteList) ==
    IF \E n \in 1..Len(remoteList) : remoteList[n].name = "origin"
    THEN CHOOSE n \in 1..Len(remoteList) :
            /\ remoteList[n].name = "origin"
            /\ \A k \in 1..(n - 1) : remoteList[k].name # "origin"
    ELSE 1

\* remote.fetchUrl || remote.pushUrl
RemoteUrl(remote) == IF remote.fetchUrl \notin {Undefined, ""} THEN remote.fetchUrl ELSE remote.pushUrl

\* this.parser.parse(fetchUrl); parse(undefined) throws, and getRepoInfo returns null from its catch
ParseRemoteUrl(u) == IF u = Undefined THEN Null ELSE parse(u)

NoRepoCall == [op |-> "none"]

\* getRepoInfo on the cache `stored`: the cache and the record of the call
RepoInfoOf(stored, git) ==
    LET call == [op |-> "getRepoInfo", hit |-> FALSE, remote |-> 0, url |-> Undefined]
        chosen == SelectRemote(git.remotes)
        found == ParseRemoteUrl(RemoteUrl(git.remotes[chosen]))
        read == [call EXCEPT !.remote = chosen, !.url = RemoteUrl(git.remotes[chosen])]
    IN  IF "current-repo" \in DOMAIN stored
        THEN [cache |-> stored, call |-> [call EXCEPT !.hit = TRUE] @@ [result |-> stored["current-repo"]]]
        ELSE IF git.api # "repository" \/ Len(git.remotes) = 0
        THEN [cache |-> stored, call |-> call @@ [result |-> Null]]
        ELSE IF found # Null
        THEN [cache |-> [k \in {"current-repo"} |-> found], call |-> read @@ [result |-> found]]
        ELSE [cache |-> stored, call |-> read @@ [result |-> Null]]

InitRepoIdle ==
    /\ workspace = [api |-> "none", remotes |-> <<>>]
    /\ repoCache = <<>>
    /\ repoCall = NoRepoCall

(***************************************************************************)
(* Commit messages: removeCommitTypePrefix, determineCommitTitle,          *)
(* parseExistingSections, generateCommitMessage. The messages of the model *)
(* are ASCII with \n line ends: no full-width colon, no \r.                *)
(***************************************************************************)
Whitespace == {" ", "\n", "\t"}

At(str, p) == IF p \in 1..Len(str) THEN SubSeq(str, p, p) ELSE ""

Least(positions) == CHOOSE p \in positions : \A q \in positions : p <= q

\* the number of whitespace characters from position `from` on: \s*
SpaceRun(str, from) ==
    LET inked == {p \in from..Len(str) : At(str, p) \notin Whitespace}
    IN  IF inked = {} THEN Len(str) - from + 1 ELSE Least(inked) - from

\* str.trim()
Trim(str) ==
    LET inked == {p \in 1..Len(str) : At(str, p) \notin Whitespace}
    IN  IF inked = {} THEN ""
        ELSE SubSeq(str, Least(inked), CHOOSE p \in inked : \A q \in inked : q <= p)

\* str.trimEnd()
TrimEnd(str) ==
    LET inked == {p \in 1..Len(str) : At(str, p) \notin Whitespace}
    IN  IF inked = {} THEN ""
        ELSE SubSeq(str, 1, CHOOSE p \in inked : \A q \in inked : q <= p)

LowerChar(ch) ==
    LET at == IndexOf("ABCDEFGHIJKLMNOPQRSTUVWXYZ", ch, 1)
    IN  IF at = 0 THEN ch ELSE SubSeq("abcdefghijklmnopqrstuvwxyz", at, at)

RECURSIVE toLowerCase(_)
\* str.toLowerCase()
toLowerCase(str) ==
    IF str = "" THEN "" ELSE LowerChar(SubSeq(str, 1, 1)) \o toLowerCase(SubSeq(str, 2, Len(str)))

\* the word, in any case, stands in the string at position `from`: the i flag
HasWordAt(str, from, word) ==
    /\ from + Len(word) - 1 <= Len(str)
    /\ toLowerCase(SubSeq(str, from, from + Len(word) - 1)) = word

\* \w
IsWordChar(ch) ==
    ch # "" /\ IndexOf("abcdefghijklmnopqrstuvwxyz0123456789_", LowerChar(ch), 1) # 0

\* (feat|fix|docs?|style|refactor|test|chore|perf|ci|build|revert|hotfix|security|update|add|remove)
CommitTypeWords ==
    <<"feat", "fix", "docs", "doc", "style", "refactor", "test", "chore", "perf", "ci", "build",
      "revert", "hotfix", "security", "update", "add", "remove">>

\* the position behind the character when it stands at position `from`, `from` when it does not: ch?
Skip(str, from, ch) == IF At(str, from) = ch THEN from + 1 ELSE from

\* the position behind the whitespace from position `from` on: \s*
SkipSpaces(str, from) == from + SpaceRun(str, from)

\* the least of the positions, `none` without one
LeastOr(positions, none) == IF positions = {} THEN none ELSE Least(positions)

\* value || fallback on strings
OrIfEmpty(value, fallback) == IF value # "" THEN value ELSE fallback

\* the words of CommitTypeWords that stand at position `from`, by their places in the list
WordsAt(str, from) == {n \in 1..Len(CommitTypeWords) : HasWordAt(str, from, CommitTypeWords[n])}

\* the position behind !?\s*[:]\s* when that matches at position `from`, 0 when it does not
AfterColon(str, from) ==
    LET colon == SkipSpaces(str, Skip(str, from, "!"))
    IN  IF At(str, colon) = ":" THEN SkipSpaces(str, colon + 1) ELSE 0

\* the position behind (\(.+?\))!?\s*[:]\s* when that matches at the bracket at position `a`, 0 when it
\* does not: .+? takes the first closing bracket of the line behind which the rest matches
AfterScope(str, a) ==
    LET q == LeastOr({q \in (a + 2)..Len(str) :
                         /\ At(str, q) = ")"
                         /\ AfterColon(str, q + 1) # 0
                         /\ \A p \in (a + 1)..(q - 1) : At(str, p) # "\n"}, 0)
    IN  IF q = 0 THEN 0 ELSE AfterColon(str, q + 1)

\* COMMIT_TYPE_PATTERNS[0], /^(types)(\(.+?\))?!?\s*[:]\s*/i: the length of its match, 0 without one
TypeColonPrefix(str) ==
    LET \* the position behind the match whose word ends before position `a`, 0 without a match
        EndWith(a) == IF At(str, a) # "(" THEN AfterColon(str, a) ELSE AfterScope(str, a)
    IN  LeastOr({EndWith(Len(CommitTypeWords[n]) + 1) : n \in WordsAt(str, 1)} \ {0}, 1) - 1

\* COMMIT_TYPE_PATTERNS[1], /^\[?(types)\]?\s*[:]?\s*/i: the length of its match, 0 without one
TypeWordPrefix(str) ==
    LET open == Skip(str, 1, "[")
        found == WordsAt(str, open)
    IN  IF found = {} THEN 0
        ELSE SkipSpaces(str, Skip(str, SkipSpaces(str, Skip(str, open + Len(CommitTypeWords[Least(found)]), "]")), ":")) - 1

\* the end of the run of digits at position `from`, from - 1 without a digit
DigitsEnd(str, from) ==
    LET others == {p \in from..Len(str) : IndexOf("0123456789", At(str, p), 1) = 0}
    IN  IF others = {} THEN Len(str) ELSE Least(others) - 1

RECURSIVE RemoveCloses(_, _)
\* str.replace(/\n\nCloses #\d+$/gm, ''), from position `from` on
RemoveCloses(str, from) ==
    LET matches == {p \in from..(Len(str) - 10) :
                       /\ SubSeq(str, p, p + 9) = "\n\nCloses #"
                       /\ DigitsEnd(str, p + 10) >= p + 10
                       /\ At(str, DigitsEnd(str, p + 10) + 1) \in {"", "\n"}}
        at == Least(matches)
    IN  IF matches = {} THEN SubSeq(str, from, Len(str))
        ELSE SubSeq(str, from, at - 1) \o RemoveCloses(str, DigitsEnd(str, at + 10) + 1)

\* str.replace(/\n\nBREAKING CHANGE:.*$/s, '')
RemoveBreaking(str) ==
    LET at == IndexOf(str, "\n\nBREAKING CHANGE:", 1)
    IN  IF at = 0 THEN str ELSE SubSeq(str, 1, at - 1)

\* str.replace(pattern, '').trim() for a pattern that matches the first `length` characters
DropPrefix(str, length) == Trim(SubSeq(str, length + 1, Len(str)))

\* the loop over COMMIT_TYPE_PATTERNS
WithoutTypePrefix(title) ==
    LET WithoutTypeColon(str) == DropPrefix(str, TypeColonPrefix(str))
        WithoutTypeWord(str) == DropPrefix(str, TypeWordPrefix(str))
        WithoutBreaking(str) == Trim(RemoveBreaking(str))
        WithoutCloses(str) == Trim(RemoveCloses(str, 1))
    IN  WithoutCloses(WithoutBreaking(WithoutTypeWord(WithoutTypeColon(title))))

\* removeCommitTypePrefix(title)
removeCommitTypePrefix(title) == OrIfEmpty(WithoutTypePrefix(title), title)

\* determineCommitTitle(currentMessage, selectedIssue, hasExistingContent) with hasExistingContent
determineCommitTitle(currentMessage) ==
    OrIfEmpty(removeCommitTypePrefix(Trim(currentMessage)), Trim(currentMessage))

RECURSIVE Split(_, _)
\* str.split(/\n/), from position `from` on
Split(str, from) ==
    LET at == IndexOf(str, "\n", from)
    IN  IF at = 0 THEN <<SubSeq(str, from, Len(str))>>
        ELSE <<SubSeq(str, from, at - 1)>> \o Split(str, at + 1)

RECURSIVE Join(_)
\* lines.join('\n')
Join(lines) ==
    IF Len(lines) = 0 THEN ""
    ELSE IF Len(lines) = 1 THEN lines[1]
    ELSE lines[1] \o "\n" \o Join(Tail(lines))

RECURSIVE DropLeadingBlank(_)
\* while (lines.length > 0 && !lines[0].trim()) lines.shift()
DropLeadingBlank(lines) ==
    IF Len(lines) > 0 /\ Trim(lines[1]) = "" THEN DropLeadingBlank(Tail(lines)) ELSE lines

RECURSIVE DropTrailingBlank(_)
\* while (body.length > 0 && !body[body.length - 1].trim()) body.pop()
DropTrailingBlank(lines) ==
    IF Len(lines) > 0 /\ Trim(lines[Len(lines)]) = ""
    THEN DropTrailingBlank(SubSeq(lines, 1, Len(lines) - 1))
    ELSE lines

\* /^(BREAKING\s+CHANGE|BREAKING-CHANGE)/i
IsBreakingLine(line) ==
    \/ HasWordAt(line, 1, "breaking-change")
    \/ /\ HasWordAt(line, 1, "breaking")
       /\ SpaceRun(line, 9) >= 1
       /\ HasWordAt(line, 9 + SpaceRun(line, 9), "change")

\* footerPattern: /^(BREAKING\s+CHANGE|BREAKING-CHANGE|Closes|Fixes|Resolves|Refs?|See)\b/i
IsFooterLine(line) ==
    \/ HasWordAt(line, 1, "breaking-change") /\ ~IsWordChar(At(line, 16))
    \/ /\ HasWordAt(line, 1, "breaking")
       /\ SpaceRun(line, 9) >= 1
       /\ HasWordAt(line, 9 + SpaceRun(line, 9), "change")
       /\ ~IsWordChar(At(line, 15 + SpaceRun(line, 9)))
    \/ \E word \in {"closes", "fixes", "resolves", "refs", "ref", "see"} :
          HasWordAt(line, 1, word) /\ ~IsWordChar(At(line, Len(word) + 1))

RECURSIVE ParseInt(_, _)
\* parseInt(digits, 10), on top of the value read so far
ParseInt(digits, value) ==
    IF digits = "" THEN value
    ELSE ParseInt(SubSeq(digits, 2, Len(digits)), 10 * value + IndexOf("0123456789", SubSeq(digits, 1, 1), 1) - 1)

\* footer.match(/^(Closes|Fixes|Resolves)\s+#?(\d+)/i): the numbers it yields
IssueNumbersOf(footer) ==
    {ParseInt(SubSeq(footer, from, DigitsEnd(footer, from)), 0) :
        from \in {p \in 1..Len(footer) :
                     /\ DigitsEnd(footer, p) >= p
                     /\ \E word \in {"closes", "fixes", "resolves"} :
                           LET gap == Len(word) + 1
                               hash == gap + SpaceRun(footer, gap)
                           IN  /\ HasWordAt(footer, 1, word)
                               /\ SpaceRun(footer, gap) >= 1
                               /\ p = IF At(footer, hash) = "#" THEN hash + 1 ELSE hash}}

\* the sections of a message whose lines are these body lines and these footer lines
SectionsWith(body, footers) ==
    [body |-> DropTrailingBlank(body),
     footers |-> footers,
     hasBreakingFooter |-> \E n \in 1..Len(footers) : IsBreakingLine(Trim(footers[n])),
     existingIssueNumbers |-> UNION {IssueNumbersOf(footers[n]) : n \in 1..Len(footers)}]

\* the lines behind the title split where the first footer line stands
SectionsAt(trimmed, footerStart) ==
    SectionsWith(SubSeq(trimmed, 1, footerStart - 1), SubSeq(trimmed, footerStart, Len(trimmed)))

\* the lines behind the title, each without its trailing whitespace, split into body and footers
SectionsOf(lines) ==
    LET trimmed == [n \in 1..Len(lines) |-> TrimEnd(lines[n])]
    IN  SectionsAt(trimmed, LeastOr({n \in 1..Len(trimmed) : IsFooterLine(Trim(trimmed[n]))}, Len(trimmed) + 1))

\* parseExistingSections(existingMessage)
parseExistingSections(existingMessage) ==
    IF Trim(existingMessage) = ""
    THEN [body |-> <<>>, footers |-> <<>>, hasBreakingFooter |-> FALSE, existingIssueNumbers |-> {}]
    ELSE SectionsOf(DropLeadingBlank(Tail(Split(existingMessage, 1))))

\* addFooter(footer) on the footer lines collected so far: blank and repeated footers are left out
addFooter(footerLines, footer) ==
    IF Trim(footer) = "" \/ \E n \in 1..Len(footerLines) : toLowerCase(footerLines[n]) = toLowerCase(Trim(footer))
    THEN footerLines
    ELSE Append(footerLines, Trim(footer))

RECURSIVE AddFooters(_, _)
\* footers.forEach(addFooter)
AddFooters(footerLines, footers) ==
    IF Len(footers) = 0 THEN footerLines
    ELSE AddFooters(addFooter(footerLines, Head(footers)), Tail(footers))

\* the text of the footer added for a breaking change, in ASCII
BreakingFooter == "BREAKING CHANGE: this change may break existing use"

\* if (condition) addFooter(footer)
addFooterIf(condition, footerLines, footer) ==
    IF condition THEN addFooter(footerLines, footer) ELSE footerLines

\* the header line: type, scope in brackets, the breaking mark, the title
CommitHeader(options, cleanedTitle, shouldMarkBreaking) ==
    options.type
        \o (IF Trim(options.scope) # "" THEN "(" \o Trim(options.scope) \o ")" ELSE "")
        \o (IF shouldMarkBreaking THEN "!" ELSE "")
        \o ": " \o cleanedTitle

\* the header and, behind a blank line, the body that was there
HeaderAndBody(commitHeader, body) ==
    IF Len(body) > 0 THEN <<commitHeader, "">> \o body ELSE <<commitHeader>>

\* the footers that were there, the footer of a breaking change, the footer of the issue selected
FooterLines(options, existingSections, shouldMarkBreaking) ==
    addFooterIf(options.issue # 0 /\ options.issue \notin existingSections.existingIssueNumbers,
                addFooterIf(shouldMarkBreaking /\ ~existingSections.hasBreakingFooter,
                            AddFooters(<<>>, existingSections.footers),
                            BreakingFooter),
                "Closes #" \o ToString(options.issue))

\* the footers go behind a blank line
WithFooterLines(lines, footerLines) ==
    IF Len(footerLines) > 0
    THEN Join(lines \o (IF lines[Len(lines)] # "" THEN <<"">> ELSE <<>>) \o footerLines)
    ELSE Join(lines)

\* generateCommitMessage(options); options.issues holds no issue or the one selected
generateCommitMessage(options) ==
    LET Generated(cleanedTitle, existingSections, shouldMarkBreaking) ==
            WithFooterLines(HeaderAndBody(CommitHeader(options, cleanedTitle, shouldMarkBreaking),
                                          existingSections.body),
                            FooterLines(options, existingSections, shouldMarkBreaking))
        Marked(cleanedTitle, existingSections) ==
            Generated(cleanedTitle, existingSections,
                      options.isBreaking \/ existingSections.hasBreakingFooter)
    IN  Marked(removeCommitTypePrefix(options.title), parseExistingSections(options.existingMessage))

(***************************************************************************)
(* Calls of fetchIssues in progress; the commit message being formatted    *)
(***************************************************************************)
\* no call of fetchIssues has begun
InitOverlapIdle == inFlight = <<>>

NoCommit == [stage |-> "none"]

InitFormatIdle == commit = NoCommit

(***************************************************************************)
(* The cache as a state machine                                            *)
(***************************************************************************)
Op(name, k, ret) == [op |-> name, key |-> k, ret |-> ret, removed |-> {}]

NoResult == "void"

\* history: k has just been used
Used(order, k) == Append(SelectSeq(order, LAMBDA x : x # k), k)

\* history: the keys that are no longer stored leave the order
StillStored(order, c) == SelectSeq(order, LAMBDA x : x \in KeySet(c))

NeverSet == [at |-> 0, val |-> Undefined]

\* new Cache(ttlMinutes, maxSize): empty map, interval installed
InitCache ==
    /\ cache = <<>>
    /\ ttl = Ttl
    /\ maxSize \in 0..MaxCap
    /\ cleanupTimer = TRUE
    /\ now = 0
    /\ lastOp = Op("new", NoKey, NoResult)
    /\ useOrder = <<>>
    /\ lastSet = [k \in Keys |-> NeverSet]
    /\ disposed = FALSE

InitParserIdle ==
    /\ url = ""
    /\ parsed = FALSE
    /\ repoInfo = Null

Init ==
    /\ InitCache /\ InitParserIdle /\ InitHttpIdle /\ InitFetchIdle /\ InitServiceIdle /\ InitTokenIdle
    /\ InitLogIdle /\ InitRepoIdle /\ InitOverlapIdle /\ InitFormatIdle

Set(k, d) ==
    /\ cache' = CacheSet(cache, k, d, now, maxSize)
    /\ lastOp' = [Op("set", k, NoResult) EXCEPT !.removed = KeySet(cache) \ KeySet(cache')]
    /\ useOrder' = StillStored(Used(useOrder, k), cache')
    /\ lastSet' = [lastSet EXCEPT ![k] = [at |-> now, val |-> d]]
    /\ UNCHANGED <<ttl, maxSize, cleanupTimer, now, disposed>>
    /\ UNCHANGED <<parserVars, httpVars, fetchVars, serviceVars, tokenVars, logVars, repoVars, overlapVars, formatVars>>

Get(k) ==
    /\ cache' = GetCache(cache, k, now, ttl)
    /\ lastOp' = Op("get", k, GetResult(cache, k, now, ttl))
    /\ IF GetResult(cache, k, now, ttl) # Undefined
       THEN useOrder' = StillStored(Used(useOrder, k), cache')
       ELSE useOrder' = StillStored(useOrder, cache')
    /\ UNCHANGED <<ttl, maxSize, cleanupTimer, now, lastSet, disposed>>
    /\ UNCHANGED <<parserVars, httpVars, fetchVars, serviceVars, tokenVars, logVars, repoVars, overlapVars, formatVars>>

Has(k) ==
    /\ cache' = HasCache(cache, k, now, ttl)
    /\ lastOp' = Op("has", k, HasResult(cache, k, now, ttl))
    /\ useOrder' = StillStored(useOrder, cache')
    /\ UNCHANGED <<ttl, maxSize, cleanupTimer, now, lastSet, disposed>>
    /\ UNCHANGED <<parserVars, httpVars, fetchVars, serviceVars, tokenVars, logVars, repoVars, overlapVars, formatVars>>

Delete(k) ==
    /\ cache' = MapDelete(cache, k)
    /\ lastOp' = Op("delete", k, NoResult)
    /\ useOrder' = StillStored(useOrder, cache')
    /\ UNCHANGED <<ttl, maxSize, cleanupTimer, now, lastSet, disposed>>
    /\ UNCHANGED <<parserVars, httpVars, fetchVars, serviceVars, tokenVars, logVars, repoVars, overlapVars, formatVars>>

Clear ==
    /\ cache' = ClearCache(cache)
    /\ lastOp' = Op("clear", NoKey, NoResult)
    /\ useOrder' = StillStored(useOrder, cache')
    /\ UNCHANGED <<ttl, maxSize, cleanupTimer, now, lastSet, disposed>>
    /\ UNCHANGED <<parserVars, httpVars, fetchVars, serviceVars, tokenVars, logVars, repoVars, overlapVars, formatVars>>

\* the interval callback: runs only while the interval is installed
Sweep ==
    /\ cleanupTimer
    /\ cache' = Cleanup(cache, now, ttl)
    /\ lastOp' = [Op("sweep", NoKey, NoResult) EXCEPT !.removed = KeySet(cache) \ KeySet(cache')]
    /\ useOrder' = StillStored(useOrder, cache')
    /\ UNCHANGED <<ttl, maxSize, cleanupTimer, now, lastSet, disposed>>
    /\ UNCHANGED <<parserVars, httpVars, fetchVars, serviceVars, tokenVars, logVars, repoVars, overlapVars, formatVars>>

Dispose ==
    /\ cleanupTimer' = IF cleanupTimer THEN DisposeTimer(cleanupTimer) ELSE cleanupTimer
    /\ cache' = ClearCache(cache)
    /\ lastOp' = Op("dispose", NoKey, IF cleanupTimer THEN "timer cleared" ELSE "no timer")
    /\ disposed' = TRUE
    /\ useOrder' = StillStored(useOrder, cache')
    /\ UNCHANGED <<ttl, maxSize, now, lastSet>>
    /\ UNCHANGED <<parserVars, httpVars, fetchVars, serviceVars, tokenVars, logVars, repoVars, overlapVars, formatVars>>

\* the clock advances
Tick ==
    /\ now < MaxTime
    /\ now' = now + 1
    /\ lastOp' = Op("tick", NoKey, NoResult)
    /\ UNCHANGED <<cache, ttl, maxSize, cleanupTimer, useOrder, lastSet, disposed>>
    /\ UNCHANGED <<parserVars, httpVars, fetchVars, serviceVars, tokenVars, logVars, repoVars, overlapVars, formatVars>>

Next ==
    \/ \E k \in Keys, d \in Values : Set(k, d)
    \/ \E k \in Keys : Get(k)
    \/ \E k \in Keys : Has(k)
    \/ \E k \in Keys : Delete(k)
    \/ Clear
    \/ Sweep
    \/ Dispose
    \/ Tick

Spec == Init /\ [][Next]_vars

(***************************************************************************)
(* The parser, run once on a remote URL                                    *)
(***************************************************************************)
InitCacheIdle ==
    /\ cache = <<>>
    /\ ttl = Ttl
    /\ maxSize = MaxCap
    /\ cleanupTimer = TRUE
    /\ now = 0
    /\ lastOp = Op("new", NoKey, NoResult)
    /\ useOrder = <<>>
    /\ lastSet = [k \in Keys |-> NeverSet]
    /\ disposed = FALSE

InitParser ==
    /\ InitOverlapIdle
    /\ InitFormatIdle
    /\ InitHttpIdle
    /\ InitFetchIdle
    /\ InitServiceIdle
    /\ InitTokenIdle
    /\ InitLogIdle
    /\ InitRepoIdle
    /\ url \in RemoteUrls
    /\ parsed = FALSE
    /\ repoInfo = Null
    /\ InitCacheIdle

Parse ==
    /\ ~parsed
    /\ repoInfo' = parse(url)
    /\ parsed' = TRUE
    /\ UNCHANGED url
    /\ UNCHANGED <<cacheVars, httpVars, fetchVars, serviceVars, tokenVars, logVars, repoVars, overlapVars, formatVars>>

NextParser == Parse

SpecParser == InitParser /\ [][NextParser]_vars

(***************************************************************************)
(* requestWithRetry as a state machine                                     *)
(***************************************************************************)
InitHttp ==
    /\ InitOverlapIdle
    /\ InitFormatIdle
    /\ InitCacheIdle
    /\ InitParserIdle
    /\ InitFetchIdle
    /\ InitServiceIdle
    /\ InitTokenIdle
    /\ InitLogIdle
    /\ InitRepoIdle
    /\ retries \in -1..MaxRetries
    /\ loopIndex = 0
    /\ pc = "loop"
    /\ req = NoRequest
    /\ promise = Pending
    /\ result = Pending
    /\ attempts = <<>>
    /\ sleeps = <<>>
    /\ clock = 0
    /\ wakeAt = 0

Observed(kind) ==
    [attempts EXCEPT ![Len(attempts)] = [@ EXCEPT !.kind = kind, !.done = clock]]

\* for (let i = 0; i <= retries; i++) { ... await this.request(url, options)
Attempt ==
    /\ pc = "loop"
    /\ loopIndex <= retries
    /\ req' = NewRequest
    /\ promise' = Pending
    /\ pc' = "awaiting"
    /\ attempts' = Append(attempts, [issued |-> clock, kind |-> "pending", done |-> clock])
    /\ UNCHANGED <<retries, loopIndex, result, sleeps, clock, wakeAt>>
    /\ UNCHANGED <<cacheVars, parserVars, fetchVars, serviceVars, tokenVars, logVars, repoVars, overlapVars, formatVars>>

\* the loop ends without an attempt left: throw new Error('...')
LoopExit ==
    /\ pc = "loop"
    /\ ~(loopIndex <= retries)
    /\ pc' = "thrown"
    /\ result' = Rejected(RetryFailed)
    /\ UNCHANGED <<retries, loopIndex, req, promise, attempts, sleeps, clock, wakeAt>>
    /\ UNCHANGED <<cacheVars, parserVars, fetchVars, serviceVars, tokenVars, logVars, repoVars, overlapVars, formatVars>>

\* the response callback: the status line and the headers have arrived
Respond(statusCode) ==
    /\ pc = "awaiting"
    /\ req.phase = "sent"
    /\ ~req.destroyed
    /\ req' = [req EXCEPT !.phase = "receiving", !.statusCode = statusCode]
    /\ UNCHANGED <<retries, loopIndex, pc, promise, result, attempts, sleeps, clock, wakeAt>>
    /\ UNCHANGED <<cacheVars, parserVars, fetchVars, serviceVars, tokenVars, logVars, repoVars, overlapVars, formatVars>>

\* res.on('data'): chunks already read may still be delivered after req.destroy()
Data(length) ==
    /\ pc = "awaiting"
    /\ req.phase = "receiving"
    /\ req.chunks < MaxChunks
    /\ LET totalLength == req.totalLength + length
       IN  /\ req' = [req EXCEPT !.totalLength = totalLength, !.chunks = @ + 1,
                                 !.destroyed = @ \/ Exceeds(totalLength)]
           /\ promise' = IF Exceeds(totalLength) THEN Settle(promise, Rejected(TooLarge)) ELSE promise
    /\ UNCHANGED <<retries, loopIndex, pc, result, attempts, sleeps, clock, wakeAt>>
    /\ UNCHANGED <<cacheVars, parserVars, fetchVars, serviceVars, tokenVars, logVars, repoVars, overlapVars, formatVars>>

\* res.on('end'); json: the body received is a JSON text
End(json) ==
    /\ pc = "awaiting"
    /\ req.phase = "receiving"
    /\ ~req.destroyed
    /\ json => req.totalLength > 0
    /\ IF ~IsSuccess(req.statusCode)
       THEN /\ req' = [req EXCEPT !.phase = "ended"]
            /\ promise' = Settle(promise, Rejected(StatusError(req.statusCode, req.totalLength)))
       ELSE IF json
       THEN /\ req' = [req EXCEPT !.phase = "ended", !.parsed = "ok"]
            /\ promise' = Settle(promise, Resolved(ParsedBody(req.totalLength)))
       ELSE /\ req' = [req EXCEPT !.phase = "ended", !.parsed = "failed"]
            /\ promise' = Settle(promise, Rejected(ParseError))
    /\ UNCHANGED <<retries, loopIndex, pc, result, attempts, sleeps, clock, wakeAt>>
    /\ UNCHANGED <<cacheVars, parserVars, fetchVars, serviceVars, tokenVars, logVars, repoVars, overlapVars, formatVars>>

\* req.on('error'), also raised by the socket after req.destroy()
ReqError(code) ==
    /\ pc = "awaiting"
    /\ req.phase \in {"sent", "receiving"}
    /\ req' = [req EXCEPT !.phase = "failed"]
    /\ promise' = Settle(promise, Rejected(NetworkError(code)))
    /\ UNCHANGED <<retries, loopIndex, pc, result, attempts, sleeps, clock, wakeAt>>
    /\ UNCHANGED <<cacheVars, parserVars, fetchVars, serviceVars, tokenVars, logVars, repoVars, overlapVars, formatVars>>

\* req.on('timeout')
Timeout ==
    /\ pc = "awaiting"
    /\ req.phase \in {"sent", "receiving"}
    /\ ~req.destroyed
    /\ req' = [req EXCEPT !.destroyed = TRUE, !.timedOut = TRUE]
    /\ promise' = Settle(promise, Rejected(TimedOut))
    /\ UNCHANGED <<retries, loopIndex, pc, result, attempts, sleeps, clock, wakeAt>>
    /\ UNCHANGED <<cacheVars, parserVars, fetchVars, serviceVars, tokenVars, logVars, repoVars, overlapVars, formatVars>>

\* return await ...: the attempt succeeded
Return ==
    /\ pc = "awaiting"
    /\ promise.state = "resolved"
    /\ pc' = "returned"
    /\ result' = promise
    /\ attempts' = Observed("ok")
    /\ UNCHANGED <<retries, loopIndex, req, promise, sleeps, clock, wakeAt>>
    /\ UNCHANGED <<cacheVars, parserVars, fetchVars, serviceVars, tokenVars, logVars, repoVars, overlapVars, formatVars>>

\* catch (error) { if (i === retries) throw error; await this.sleep(1000 * (i + 1)); }
\* A failed request that is retried is dropped: nothing refers to it any more.
Catch ==
    /\ pc = "awaiting"
    /\ promise.state = "rejected"
    /\ attempts' = Observed(promise.value.kind)
    /\ IF LastAttempt(loopIndex, retries)
       THEN /\ pc' = "thrown"
            /\ result' = promise
            /\ UNCHANGED <<req, promise, sleeps, wakeAt>>
       ELSE /\ pc' = "sleeping"
            /\ sleeps' = Append(sleeps, sleepMs(loopIndex))
            /\ wakeAt' = clock + sleepMs(loopIndex)
            /\ req' = NoRequest
            /\ promise' = Pending
            /\ UNCHANGED result
    /\ UNCHANGED <<retries, loopIndex, clock>>
    /\ UNCHANGED <<cacheVars, parserVars, fetchVars, serviceVars, tokenVars, logVars, repoVars, overlapVars, formatVars>>

\* time passes during a sleep; the timer may fire late
TickMs ==
    /\ pc = "sleeping"
    /\ clock < wakeAt + BackoffBase
    /\ clock' = clock + BackoffBase
    /\ UNCHANGED <<retries, loopIndex, pc, req, promise, result, attempts, sleeps, wakeAt>>
    /\ UNCHANGED <<cacheVars, parserVars, fetchVars, serviceVars, tokenVars, logVars, repoVars, overlapVars, formatVars>>

\* setTimeout(resolve, ms) fires: the loop goes on with i++
Wake ==
    /\ pc = "sleeping"
    /\ clock >= wakeAt
    /\ loopIndex' = loopIndex + 1
    /\ pc' = "loop"
    /\ UNCHANGED <<retries, req, promise, result, attempts, sleeps, clock, wakeAt>>
    /\ UNCHANGED <<cacheVars, parserVars, fetchVars, serviceVars, tokenVars, logVars, repoVars, overlapVars, formatVars>>

NextHttp ==
    \/ Attempt
    \/ LoopExit
    \/ \E statusCode \in StatusCodes : Respond(statusCode)
    \/ \E length \in ChunkSizes : Data(length)
    \/ \E json \in BOOLEAN : End(json)
    \/ \E code \in ErrorCodes : ReqError(code)
    \/ Timeout
    \/ Return
    \/ Catch
    \/ TickMs
    \/ Wake

SpecHttp == InitHttp /\ [][NextHttp]_vars

(***************************************************************************)
(* fetchIssues as a state machine                                          *)
(***************************************************************************)
Platforms == {"gitee", "gitlab"}

MaxIssuesChoices == {0, 1, 2, 3, PageCap - 1, PageCap, PageCap + 1, 2 * PageCap, 120}

\* the lengths of the list the endpoint may answer with when asked for a page of `asked` items
PageLengths(asked) == {0, 1, asked - 1, asked, asked + 1} \cap Nat

InitFetch ==
    /\ InitOverlapIdle
    /\ InitFormatIdle
    /\ InitCacheIdle
    /\ InitParserIdle
    /\ InitHttpIdle
    /\ InitServiceIdle
    /\ InitTokenIdle
    /\ InitLogIdle
    /\ InitRepoIdle
    /\ forgeKind \in Platforms
    /\ maxIssues \in MaxIssuesChoices
    /\ perPage = Min(maxIssues, PageCap)
    /\ page = 1
    /\ allIssues = <<>>
    /\ fetchPc = "loop"
    /\ issuesOut = <<>>
    /\ requests = <<>>
    /\ pageLengths = <<>>
    /\ progress = NoProgress

\* while (allIssues.length < maxIssues) { ... await this.httpClient.requestWithRetry(url, ...)
RequestPage ==
    /\ fetchPc = "loop"
    /\ IF MoreWanted(Len(allIssues), maxIssues)
       THEN /\ fetchPc' = "awaiting"
            /\ requests' = Append(requests, [page |-> page, per_page |-> perPage])
       ELSE /\ fetchPc' = "done"
            /\ UNCHANGED requests
    /\ UNCHANGED <<forgeKind, maxIssues, perPage, page, allIssues, issuesOut, pageLengths, progress>>
    /\ UNCHANGED <<cacheVars, parserVars, httpVars, serviceVars, tokenVars, logVars, repoVars, overlapVars, formatVars>>

\* the request resolved with a list of `length` issues
ReceivePage(length) ==
    /\ fetchPc = "awaiting"
    /\ length \in PageLengths(perPage)
    /\ pageLengths' = Append(pageLengths, length)
    /\ LET issues == [n \in 1..length |-> RawIssue(Len(allIssues) + n)]
           convertedIssues == [n \in 1..length |-> ConvertIssue(forgeKind, issues[n])]
       IN  IF Len(issues) = 0
           THEN /\ fetchPc' = "done"
                /\ UNCHANGED <<allIssues, page>>
           ELSE /\ allIssues' = allIssues \o convertedIssues
                /\ IF ShortPage(Len(issues), perPage)
                   THEN fetchPc' = "done" /\ UNCHANGED page
                   ELSE fetchPc' = "loop" /\ page' = NextPage(page)
    /\ UNCHANGED <<forgeKind, maxIssues, perPage, issuesOut, requests, progress>>
    /\ UNCHANGED <<cacheVars, parserVars, httpVars, serviceVars, tokenVars, logVars, repoVars, overlapVars, formatVars>>

\* the request resolved with JSON that is no array: !Array.isArray(issues)
ReceiveOther ==
    /\ fetchPc = "awaiting"
    /\ pageLengths' = Append(pageLengths, -1)
    /\ fetchPc' = "done"
    /\ UNCHANGED <<forgeKind, maxIssues, perPage, page, allIssues, issuesOut, requests, progress>>
    /\ UNCHANGED <<cacheVars, parserVars, httpVars, serviceVars, tokenVars, logVars, repoVars, overlapVars, formatVars>>

\* requestWithRetry threw: fetchIssues has no catch
RequestThrows ==
    /\ fetchPc = "awaiting"
    /\ fetchPc' = "thrown"
    /\ UNCHANGED <<forgeKind, maxIssues, perPage, page, allIssues, issuesOut, requests, pageLengths, progress>>
    /\ UNCHANGED <<cacheVars, parserVars, httpVars, serviceVars, tokenVars, logVars, repoVars, overlapVars, formatVars>>

\* return allIssues.slice(0, maxIssues)
ReturnIssues ==
    /\ fetchPc = "done"
    /\ issuesOut' = Slice(allIssues, maxIssues)
    /\ fetchPc' = "returned"
    /\ UNCHANGED <<forgeKind, maxIssues, perPage, page, allIssues, requests, pageLengths, progress>>
    /\ UNCHANGED <<cacheVars, parserVars, httpVars, serviceVars, tokenVars, logVars, repoVars, overlapVars, formatVars>>

\* the user presses Cancel on the progress notification while the fetch runs
CancelProgress ==
    /\ fetchPc \in {"loop", "awaiting", "done"}
    /\ ~progress.isCancellationRequested
    /\ progress' = [progress EXCEPT !.isCancellationRequested = TRUE, !.requestsAtCancel = Len(requests)]
    /\ UNCHANGED <<forgeKind, maxIssues, perPage, page, allIssues, fetchPc, issuesOut, requests, pageLengths>>
    /\ UNCHANGED <<cacheVars, parserVars, httpVars, serviceVars, tokenVars, logVars, repoVars, overlapVars, formatVars>>

\* const issues = await service.fetchIssues(repoInfo);
\* if (token.isCancellationRequested) throw new Error(...); return issues;
\* and the catch around withProgress
ProgressEnds ==
    /\ fetchPc \in {"returned", "thrown"}
    /\ progress.outcome = "pending"
    /\ progress' = [progress EXCEPT !.outcome =
                        IF fetchPc = "thrown" THEN "failed"
                        ELSE IF progress.isCancellationRequested THEN "cancelled"
                        ELSE "issues"]
    /\ UNCHANGED <<forgeKind, maxIssues, perPage, page, allIssues, fetchPc, issuesOut, requests, pageLengths>>
    /\ UNCHANGED <<cacheVars, parserVars, httpVars, serviceVars, tokenVars, logVars, repoVars, overlapVars, formatVars>>

NextFetch ==
    \/ RequestPage
    \/ \E length \in 0..(PageCap + 1) : ReceivePage(length)
    \/ ReceiveOther
    \/ RequestThrows
    \/ ReturnIssues
    \/ CancelProgress
    \/ ProgressEnds

SpecFetch == InitFetch /\ [][NextFetch]_vars

(***************************************************************************)
(* CommitHelperService.fetchIssues as a state machine                      *)
(***************************************************************************)
ServicePlatforms == {"github", "local-gitlab", "bitbucket"}

OwnersAndRepos == {<<"a-b", "c">>, <<"a", "b-c">>, <<"a", "b">>}

ServiceRepoInfos ==
    {[platform |-> p, owner |-> o[1], repo |-> o[2]] : p \in ServicePlatforms, o \in OwnersAndRepos}

AccessTokens == {Undefined, "", "t0k3n"}

FetchOutcomes == {"throws", "no issues", "issues"}

InitService ==
    /\ InitOverlapIdle
    /\ InitFormatIdle
    /\ InitCacheIdle
    /\ InitParserIdle
    /\ InitHttpIdle
    /\ InitFetchIdle
    /\ InitTokenIdle
    /\ InitLogIdle
    /\ InitRepoIdle
    /\ issueCache = <<>>
    /\ serviceCall = NoCall

\* CommitHelperService.fetchIssues(repoInfo)
FetchIssues(info, accessToken, fetched) ==
    LET done == ServiceFetch(issueCache, info, accessToken, fetched)
    IN  /\ issueCache' = done.cache
        /\ serviceCall' = done.call @@ [op |-> "fetchIssues", deleted |-> FALSE]
        /\ UNCHANGED <<cacheVars, parserVars, httpVars, fetchVars, tokenVars, logVars, repoVars, overlapVars, formatVars>>

RefreshIssuesRestoring(info, accessToken, fetched) ==
    LET kept == [k \in DOMAIN issueCache \ {IssueCacheKey(info)} |-> issueCache[k]]
        done == ServiceFetch(kept, info, accessToken, fetched)
    IN  /\ issueCache' = IF done.call.wrote THEN done.cache ELSE issueCache
        /\ serviceCall' = done.call @@ [op |-> "refreshIssues",
                                         deleted |-> IssueCacheKey(info) \in DOMAIN issueCache]
        /\ UNCHANGED <<cacheVars, parserVars, httpVars, fetchVars, tokenVars, logVars, repoVars, overlapVars, formatVars>>

\* CommitHelperService.refreshIssues(repoInfo): this.ctx.issueCache.delete(cacheKey), then fetchIssues;
\* the record keeps whether the delete found an entry
RefreshIssues(info, accessToken, fetched) ==
    LET kept == [k \in DOMAIN issueCache \ {IssueCacheKey(info)} |-> issueCache[k]]
        done == ServiceFetch(kept, info, accessToken, fetched)
    IN  /\ issueCache' = done.cache
        /\ serviceCall' = done.call @@ [op |-> "refreshIssues",
                                         deleted |-> IssueCacheKey(info) \in DOMAIN issueCache]
        /\ UNCHANGED <<cacheVars, parserVars, httpVars, fetchVars, tokenVars, logVars, repoVars, overlapVars, formatVars>>

\* an entry of the issue cache expires, is evicted or is cleared
IssueCacheDrops(cacheKey) ==
    /\ cacheKey \in DOMAIN issueCache
    /\ issueCache' = [k \in DOMAIN issueCache \ {cacheKey} |-> issueCache[k]]
    /\ serviceCall' = NoCall
    /\ UNCHANGED <<cacheVars, parserVars, httpVars, fetchVars, tokenVars, logVars, repoVars, overlapVars, formatVars>>

NextService ==
    \/ \E info \in ServiceRepoInfos, accessToken \in AccessTokens, fetched \in FetchOutcomes :
          FetchIssues(info, accessToken, fetched)
    \/ \E info \in ServiceRepoInfos, accessToken \in AccessTokens, fetched \in FetchOutcomes :
          RefreshIssues(info, accessToken, fetched)
    \/ \E info \in ServiceRepoInfos : IssueCacheDrops(IssueCacheKey(info))

SpecService == InitService /\ [][NextService]_vars

(***************************************************************************)
(* getAccessToken as a state machine: calls, edits of the settings, expiry *)
(***************************************************************************)
\* the repositories asked about: the platform and the hostUrl of their RepoInfo
TokenRepos ==
    {<<"gitee", "https://gitee.com">>, <<"gitee", "http://gitee.com">>,
     <<"github", "https://github.com">>,
     <<"gitlab", "https://gitlab.com">>,
     <<"local-gitlab", "http://192.168.1.50">>,
     <<"local-gitlab", "https://git.example.com:8022">>}

Range(seq) == {seq[n] : n \in 1..Len(seq)}

SettingNames ==
    {"githubToken", "gitlabToken", "localGitlabToken", "giteeToken", "tokens.git.example.com"}
        \cup Range(configKeys("192.168.1.50"))

EnvironmentNames == {"GITHUB_TOKEN", "GITLAB_TOKEN", "LOCAL_GITLAB_TOKEN", "GITEE_TOKEN"}

TokenCacheKeys == {TokenCacheKey(r[1], r[2]) : r \in TokenRepos}

InitToken ==
    /\ InitOverlapIdle
    /\ InitFormatIdle
    /\ InitCacheIdle
    /\ InitParserIdle
    /\ InitHttpIdle
    /\ InitFetchIdle
    /\ InitServiceIdle
    /\ \E chosen \in SUBSET SettingNames :
          settings = [set |-> chosen, edits |-> 0]
    /\ environment \in SUBSET EnvironmentNames
    /\ Cardinality(settings.set \cup environment) <= MaxSources
    /\ tokenCache = [p \in TokenPlatforms |-> <<>>]
    /\ tokenCall = NoTokenCall
    /\ InitLogIdle
    /\ InitRepoIdle

\* platform.getAccessToken(repoInfo)
GetAccessToken(platformName, hostUrl) ==
    LET done == GetToken(tokenCache[platformName], platformName, hostUrl, settings.set \cup environment)
    IN  /\ tokenCache' = [tokenCache EXCEPT ![platformName] = done.cache]
        /\ tokenCall' = done.call
        /\ UNCHANGED <<settings, environment>>
        /\ UNCHANGED <<cacheVars, parserVars, httpVars, fetchVars, serviceVars, logVars, repoVars, overlapVars, formatVars>>

\* the user sets a setting to a non-empty string, or empties it
EditSetting(name) ==
    /\ settings.edits < MaxEdits
    /\ name \in settings.set \/ Cardinality(settings.set \cup environment) < MaxSources
    /\ settings' = [set |-> IF name \in settings.set THEN settings.set \ {name} ELSE settings.set \cup {name},
                    edits |-> settings.edits + 1]
    /\ tokenCall' = NoTokenCall
    /\ UNCHANGED <<environment, tokenCache>>
    /\ UNCHANGED <<cacheVars, parserVars, httpVars, fetchVars, serviceVars, logVars, repoVars, overlapVars, formatVars>>

\* an entry of a token cache expires after its 60 minutes
TokenCacheDrops(platformName, cacheKey) ==
    /\ cacheKey \in DOMAIN tokenCache[platformName]
    /\ tokenCache' = [tokenCache EXCEPT ![platformName] =
                          [k \in DOMAIN tokenCache[platformName] \ {cacheKey} |-> tokenCache[platformName][k]]]
    /\ tokenCall' = NoTokenCall
    /\ UNCHANGED <<settings, environment>>
    /\ UNCHANGED <<cacheVars, parserVars, httpVars, fetchVars, serviceVars, logVars, repoVars, overlapVars, formatVars>>

NextToken ==
    \/ \E r \in TokenRepos : GetAccessToken(r[1], r[2])
    \/ \E name \in SettingNames : EditSetting(name)
    \/ \E platformName \in TokenPlatforms : \E cacheKey \in TokenCacheKeys : TokenCacheDrops(platformName, cacheKey)

SpecToken == InitToken /\ [][NextToken]_vars

(***************************************************************************)
(* The requests of fetchIssues and their log records                       *)
(***************************************************************************)
LogRepos ==
    {[platform |-> "gitee", owner |-> "acme", repo |-> "widget", baseUrl |-> "https://gitee.com/api/v5"],
     [platform |-> "gitee", owner |-> "token", repo |-> "my-token", baseUrl |-> "https://gitee.com/api/v5"],
     [platform |-> "gitlab", owner |-> "acme", repo |-> "widget", baseUrl |-> "https://gitlab.com/api/v4"],
     [platform |-> "local-gitlab", owner |-> "acme", repo |-> "widget", baseUrl |-> "http://192.168.1.50/api/v4"],
     [platform |-> "local-gitlab", owner |-> "team", repo |-> "Bearer", baseUrl |-> "https://git.example.com:8022/api/v4"]}

\* tokens as the forges issue them: letters, digits, - _ . =
LogTokens == {"0123456789abcdef0123456789abcdef", "glpat-Ab_9.xZ", "YWJj==", "Zq7"}

LogPages == {1, 2, 3}
LogPerPages == {1, PageCap}

InitLog ==
    /\ InitOverlapIdle
    /\ InitFormatIdle
    /\ InitCacheIdle
    /\ InitParserIdle
    /\ InitHttpIdle
    /\ InitFetchIdle
    /\ InitServiceIdle
    /\ InitTokenIdle
    /\ InitLogIdle
    /\ InitRepoIdle

\* one turn of the loop of fetchIssues up to HttpClient.request: the request is built and logged
IssueRequest(info, accessToken, pageNo, perPageNo) ==
    /\ outgoing' = PageRequest(info, accessToken, pageNo, perPageNo)
    /\ emitted' = LogRecord(PageRequest(info, accessToken, pageNo, perPageNo))
    /\ UNCHANGED <<cacheVars, parserVars, httpVars, fetchVars, serviceVars, tokenVars, repoVars, overlapVars, formatVars>>

NextLog ==
    \E info \in LogRepos : \E accessToken \in LogTokens : \E pageNo \in LogPages : \E perPageNo \in LogPerPages :
        IssueRequest(info, accessToken, pageNo, perPageNo)

SpecLog == InitLog /\ [][NextLog]_vars

(***************************************************************************)
(* getRepoInfo as a state machine: calls, changes of the remotes, expiry   *)
(***************************************************************************)
RemoteNames == {"origin", "upstream", "backup"}

\* the URLs a remote of the name may have
FetchUrlOf(name) ==
    CASE name = "origin" -> "https://github.com/acme/widget.git"
      [] name = "upstream" -> "https://gitlab.com/acme/widget.git"
      [] name = "backup" -> "not a url"

PushUrlOf(name) ==
    CASE name = "origin" -> "git@github.com:acme/tools/widget.git"
      [] name = "upstream" -> "ssh://git@git.example.com:8022/acme/widget.git"
      [] name = "backup" -> "https://gitee.com/acme/widget"

Remotes ==
    {[name |-> name, fetchUrl |-> f, pushUrl |-> p] :
        name \in RemoteNames, f \in {Undefined, "fetch"}, p \in {Undefined, "push"}}

RemoteOf(r) ==
    [name |-> r.name,
     fetchUrl |-> IF r.fetchUrl = Undefined THEN Undefined ELSE FetchUrlOf(r.name),
     pushUrl |-> IF r.pushUrl = Undefined THEN Undefined ELSE PushUrlOf(r.name)]

\* the lists of remotes of a repository: up to MaxRemotes, each name once
RemoteLists ==
    {[n \in DOMAIN rs |-> RemoteOf(rs[n])] :
        rs \in {rs \in UNION {[1..len -> Remotes] : len \in 0..MaxRemotes} :
                    \A a, b \in DOMAIN rs : a # b => rs[a].name # rs[b].name}}

Workspaces ==
    {[api |-> "none", remotes |-> <<>>], [api |-> "no repository", remotes |-> <<>>]}
        \cup {[api |-> "repository", remotes |-> rs] : rs \in RemoteLists}

InitRepo ==
    /\ InitOverlapIdle
    /\ InitFormatIdle
    /\ InitCacheIdle
    /\ InitParserIdle
    /\ InitHttpIdle
    /\ InitFetchIdle
    /\ InitServiceIdle
    /\ InitTokenIdle
    /\ InitLogIdle
    /\ workspace \in Workspaces
    /\ repoCache = <<>>
    /\ repoCall = NoRepoCall

\* GitRepoManager.getRepoInfo()
GetRepoInfo ==
    LET done == RepoInfoOf(repoCache, workspace)
    IN  /\ repoCache' = done.cache
        /\ repoCall' = done.call
        /\ UNCHANGED workspace
        /\ UNCHANGED <<cacheVars, parserVars, httpVars, fetchVars, serviceVars, tokenVars, logVars, overlapVars, formatVars>>

\* the user adds, removes or changes remotes, opens or closes the repository
RemotesChange(git) ==
    /\ git # workspace
    /\ workspace' = git
    /\ repoCall' = NoRepoCall
    /\ UNCHANGED repoCache
    /\ UNCHANGED <<cacheVars, parserVars, httpVars, fetchVars, serviceVars, tokenVars, logVars, overlapVars, formatVars>>

\* GitRepoManager.clearCache(), or the entry expires after its 30 minutes
RepoCacheDrops ==
    /\ repoCache # <<>>
    /\ repoCache' = <<>>
    /\ repoCall' = NoRepoCall
    /\ UNCHANGED workspace
    /\ UNCHANGED <<cacheVars, parserVars, httpVars, fetchVars, serviceVars, tokenVars, logVars, overlapVars, formatVars>>

NextRepo ==
    \/ GetRepoInfo
    \/ \E git \in Workspaces : RemotesChange(git)
    \/ RepoCacheDrops

SpecRepo == InitRepo /\ [][NextRepo]_vars

(***************************************************************************)
(* fetchIssues over requestWithRetry: the pages and their attempts         *)
(***************************************************************************)
WorkMaxIssues == {-1, 0, 1, PageCap + 1}

InitWork ==
    /\ InitOverlapIdle
    /\ InitFormatIdle
    /\ InitCacheIdle
    /\ InitParserIdle
    /\ InitHttpIdle
    /\ InitServiceIdle
    /\ InitTokenIdle
    /\ InitLogIdle
    /\ InitRepoIdle
    /\ forgeKind \in Platforms
    /\ maxIssues \in WorkMaxIssues
    /\ perPage = Min(maxIssues, PageCap)
    /\ page = 1
    /\ allIssues = <<>>
    /\ fetchPc = "loop"
    /\ issuesOut = <<>>
    /\ requests = <<>>
    /\ pageLengths = <<>>
    /\ progress = NoProgress

\* while (allIssues.length < maxIssues) { ... this.httpClient.requestWithRetry(url, {method, headers}):
\* the call starts its loop with i = 0 and the default of retries; attempts and sleeps are those of this call
StartPage ==
    /\ fetchPc = "loop"
    /\ IF MoreWanted(Len(allIssues), maxIssues)
       THEN /\ fetchPc' = "awaiting"
            /\ requests' = Append(requests, [page |-> page, per_page |-> perPage])
            /\ retries' = requestWithRetryDefaults.retries
            /\ loopIndex' = 0
            /\ pc' = "loop"
            /\ req' = NoRequest
            /\ promise' = Pending
            /\ result' = Pending
            /\ attempts' = <<>>
            /\ sleeps' = <<>>
            /\ UNCHANGED <<clock, wakeAt>>
       ELSE /\ fetchPc' = "done"
            /\ UNCHANGED requests
            /\ UNCHANGED httpVars
    /\ UNCHANGED <<forgeKind, maxIssues, perPage, page, allIssues, issuesOut, pageLengths, progress>>
    /\ UNCHANGED <<cacheVars, parserVars, serviceVars, tokenVars, logVars, repoVars, overlapVars, formatVars>>

\* what the program does next
WorkSteps ==
    \/ StartPage
    \/ Attempt
    \/ Return
    \/ Catch
    \/ Wake
    \/ \E length \in 0..(PageCap + 1) : (pc = "returned" /\ ReceivePage(length))
    \/ (pc = "returned" /\ ReceiveOther)
    \/ (pc = "thrown" /\ RequestThrows)
    \/ ReturnIssues

\* what the network and the timers do to the attempt in flight
AttemptGoesOn ==
    \/ Respond(200)
    \/ Respond(300)
    \/ Data(1)
    \/ \E json \in BOOLEAN : End(json)
    \/ Timeout
    \/ TickMs

NextWork == WorkSteps \/ AttemptGoesOn

SpecWork == InitWork /\ [][NextWork]_vars

\* the event loop runs what is ready, and every attempt completes: it succeeds, fails or times out
FairSpecWork == SpecWork /\ WF_vars(WorkSteps) /\ WF_vars(AttemptGoesOn)

(***************************************************************************)
(* AppContext: the three kinds of cache and clearAllCaches                 *)
(***************************************************************************)
ContextRepos == {<<"gitee", "https://gitee.com">>, <<"local-gitlab", "http://192.168.1.50">>}

ContextSettings == {"giteeToken", "localGitlabToken"}

ContextRepoInfos == {info \in ServiceRepoInfos : info.owner = "a" /\ info.repo = "b"}

ContextWorkspaces == {git \in Workspaces : Len(git.remotes) = 1 /\ git.remotes[1].name = "origin"}

InitContext ==
    /\ InitOverlapIdle
    /\ InitFormatIdle
    /\ InitCacheIdle
    /\ InitParserIdle
    /\ InitHttpIdle
    /\ InitFetchIdle
    /\ InitLogIdle
    /\ issueCache = <<>>
    /\ serviceCall = NoCall
    /\ settings = [set |-> {"giteeToken"}, edits |-> 0]
    /\ environment \in SUBSET {"LOCAL_GITLAB_TOKEN"}
    /\ tokenCache = [p \in TokenPlatforms |-> <<>>]
    /\ tokenCall = NoTokenCall
    /\ workspace \in ContextWorkspaces
    /\ repoCache = <<>>
    /\ repoCall = NoRepoCall

ClearAllCachesAndTokens ==
    /\ issueCache' = <<>>
    /\ repoCache' = <<>>
    /\ tokenCache' = [p \in TokenPlatforms |-> <<>>]
    /\ serviceCall' = [op |-> "clearAllCaches", issues |-> DOMAIN issueCache, repo |-> DOMAIN repoCache]
    /\ repoCall' = NoRepoCall
    /\ tokenCall' = NoTokenCall
    /\ UNCHANGED <<settings, environment, workspace>>
    /\ UNCHANGED <<cacheVars, parserVars, httpVars, fetchVars, logVars, overlapVars, formatVars>>

\* AppContext.clearAllCaches(): issueCache.clear() and repoManager.clearCache();
\* the record keeps the keys the two caches held
ClearAllCaches ==
    /\ issueCache' = <<>>
    /\ repoCache' = <<>>
    /\ serviceCall' = [op |-> "clearAllCaches", issues |-> DOMAIN issueCache, repo |-> DOMAIN repoCache]
    /\ repoCall' = NoRepoCall
    /\ tokenCall' = NoTokenCall
    /\ UNCHANGED <<settings, environment, tokenCache, workspace>>
    /\ UNCHANGED <<cacheVars, parserVars, httpVars, fetchVars, logVars, overlapVars, formatVars>>

NextContext ==
    \/ \E info \in ContextRepoInfos, accessToken \in AccessTokens, fetched \in FetchOutcomes :
          FetchIssues(info, accessToken, fetched)
    \/ GetRepoInfo
    \/ \E r \in ContextRepos : GetAccessToken(r[1], r[2])
    \/ \E name \in ContextSettings : EditSetting(name)
    \/ \E platformName \in TokenPlatforms : \E cacheKey \in TokenCacheKeys : TokenCacheDrops(platformName, cacheKey)
    \/ ClearAllCaches

SpecContext == InitContext /\ [][NextContext]_vars

(***************************************************************************)
(* Calls of CommitHelperService.fetchIssues that overlap                   *)
(***************************************************************************)
OverlapRepoInfos == ContextRepoInfos

\* the calls that await platform.fetchIssues
Awaiting == {c \in 1..Len(inFlight) : inFlight[c].pc = "awaiting"}

\* the calls that have ended
Ended == {c \in 1..Len(inFlight) : inFlight[c].pc = "ended"}

InitOverlap ==
    /\ InitCacheIdle
    /\ InitParserIdle
    /\ InitHttpIdle
    /\ InitFetchIdle
    /\ InitTokenIdle
    /\ InitLogIdle
    /\ InitRepoIdle
    /\ InitFormatIdle
    /\ issueCache = <<>>
    /\ serviceCall = NoCall
    /\ inFlight = <<>>

BeginJoining(info, accessToken) ==
    LET upTo == ServiceFetch(issueCache, info, accessToken, "throws").call
        joins == \E c \in Awaiting : inFlight[c].call.info = info
    IN  /\ Len(inFlight) < MaxCalls
        /\ inFlight' = Append(inFlight,
                               IF upTo.requested
                               THEN [pc |-> "awaiting", call |-> upTo, among |-> Awaiting,
                                     requests |-> IF joins THEN <<>> ELSE <<1>>, endedAs |-> 0]
                               ELSE [pc |-> "ended", call |-> upTo, among |-> Awaiting,
                                     requests |-> <<>>, endedAs |-> Cardinality(Ended) + 1])
        /\ serviceCall' = IF upTo.requested THEN serviceCall ELSE upTo @@ [op |-> "fetchIssues", deleted |-> FALSE]
        /\ UNCHANGED issueCache
        /\ UNCHANGED <<cacheVars, parserVars, httpVars, fetchVars, tokenVars, logVars, repoVars, formatVars>>

\* fetchIssues(repoInfo) up to its await of platform.fetchIssues: the cache is read, the platform
\* looked up and the token resolved; a call that gets that far has its first page requested.
\* The record of a call keeps the calls that were awaiting when it began.
Begin(info, accessToken) ==
    LET upTo == ServiceFetch(issueCache, info, accessToken, "throws").call
    IN  /\ Len(inFlight) < MaxCalls
        /\ inFlight' = Append(inFlight,
                               IF upTo.requested
                               THEN [pc |-> "awaiting", call |-> upTo, among |-> Awaiting,
                                     requests |-> <<1>>, endedAs |-> 0]
                               ELSE [pc |-> "ended", call |-> upTo, among |-> Awaiting,
                                     requests |-> <<>>, endedAs |-> Cardinality(Ended) + 1])
        /\ serviceCall' = IF upTo.requested THEN serviceCall ELSE upTo @@ [op |-> "fetchIssues", deleted |-> FALSE]
        /\ UNCHANGED issueCache
        /\ UNCHANGED <<cacheVars, parserVars, httpVars, fetchVars, tokenVars, logVars, repoVars, formatVars>>

\* the page the call waits for came full and more is wanted: the platform asks for the next page
AnotherPage(c) ==
    /\ c \in Awaiting
    /\ Len(inFlight[c].requests) < MaxPages
    /\ inFlight' = [inFlight EXCEPT ![c].requests = Append(@, Len(@) + 1)]
    /\ UNCHANGED serviceVars
    /\ UNCHANGED <<cacheVars, parserVars, httpVars, fetchVars, tokenVars, logVars, repoVars, formatVars>>

\* platform.fetchIssues of the call settles, and fetchIssues goes on from its await:
\* this.ctx.issueCache.set(cacheKey, issues) and return, or the error passes through.
\* The cache was read before the await and is not read again. A list without issues is
\* what an empty first page gives.
Finish(c, fetched) ==
    /\ c \in Awaiting
    /\ fetched = "no issues" => Len(inFlight[c].requests) = 1
    /\ LET info == inFlight[c].call.info
           unread == [k \in DOMAIN issueCache \ {IssueCacheKey(info)} |-> issueCache[k]]
           done == ServiceFetch(unread, info, inFlight[c].call.token, fetched)
       IN  /\ issueCache' = IF done.call.wrote THEN done.cache ELSE issueCache
           /\ serviceCall' = done.call @@ [op |-> "fetchIssues", deleted |-> FALSE]
           /\ inFlight' = [inFlight EXCEPT ![c] = [@ EXCEPT !.pc = "ended", !.call = done.call,
                                                             !.endedAs = Cardinality(Ended) + 1]]
    /\ UNCHANGED <<cacheVars, parserVars, httpVars, fetchVars, tokenVars, logVars, repoVars, formatVars>>

NextOverlap ==
    \/ \E info \in OverlapRepoInfos, accessToken \in AccessTokens : Begin(info, accessToken)
    \/ \E c \in 1..MaxCalls : AnotherPage(c)
    \/ \E c \in 1..MaxCalls, fetched \in FetchOutcomes : Finish(c, fetched)

SpecOverlap == InitOverlap /\ [][NextOverlap]_vars

(***************************************************************************)
(* formatCommitMessage as a state machine                                  *)
(***************************************************************************)
ReadmeBefore ==
    "Add user authentication system\n\n- Implemented JWT token validation\n"
        \o "- Added login/logout endpoints\n- Created user session management"

\* what the input box may hold when the command is run
ExistingMessages ==
    {ReadmeBefore,
     "Improve cache eviction\n\nThe oldest entry goes first.\nSizes stay bounded.",
     "fix(cache): expire entries\n\nEntries older than the ttl are dropped.\n\nCloses #42",
     "Rework retries\n\nBREAKING CHANGE: the default changed",
     "Update readme",
     "Tidy the parser"}

CommitTypes == {"feat", "fix"}

Scopes == {"", "auth", " ui "}

\* the number of the issue selected, 0 for none
SelectedIssues == {0, 42}

InitFormat ==
    /\ InitCacheIdle
    /\ InitParserIdle
    /\ InitHttpIdle
    /\ InitFetchIdle
    /\ InitServiceIdle
    /\ InitTokenIdle
    /\ InitLogIdle
    /\ InitRepoIdle
    /\ InitOverlapIdle
    /\ \E currentMessage \in ExistingMessages : commit = [stage |-> "box", value |-> currentMessage]

\* formatCommitMessage with content in the input box: the title is determined, the type, the scope and
\* the breaking mark are chosen, the message is generated and written back: inputBox.value = finalMessage
FormatCommitMessage(commitType, scope, isBreaking, selectedIssue) ==
    /\ commit.stage = "box"
    /\ Trim(commit.value) # ""
    /\ LET commitTitle == determineCommitTitle(commit.value)
           finalMessage == generateCommitMessage([type |-> commitType, scope |-> scope, title |-> commitTitle,
                                                  issue |-> selectedIssue, isBreaking |-> isBreaking,
                                                  existingMessage |-> commit.value])
       IN  commit' = [stage |-> "written", value |-> finalMessage, currentMessage |-> commit.value,
                      type |-> commitType, scope |-> scope, isBreaking |-> isBreaking, issue |-> selectedIssue]
    /\ UNCHANGED <<cacheVars, parserVars, httpVars, fetchVars, serviceVars, tokenVars, logVars, repoVars, overlapVars>>

\* the user leaves one of the prompts: the input box keeps what it held
CancelFormat ==
    /\ commit.stage = "box"
    /\ commit' = [commit EXCEPT !.stage = "cancelled"]
    /\ UNCHANGED <<cacheVars, parserVars, httpVars, fetchVars, serviceVars, tokenVars, logVars, repoVars, overlapVars>>

NextFormat ==
    \/ \E commitType \in CommitTypes, scope \in Scopes, isBreaking \in BOOLEAN, selectedIssue \in SelectedIssues :
          FormatCommitMessage(commitType, scope, isBreaking, selectedIssue)
    \/ CancelFormat

SpecFormat == InitFormat /\ [][NextFormat]_vars

(***************************************************************************)
(* Properties of the cache                                                 *)
(***************************************************************************)
IsSet(k) == lastOp'.op = "set" /\ lastOp'.key = k
IsGet(k) == lastOp'.op = "get" /\ lastOp'.key = k
IsHas(k) == lastOp'.op = "has" /\ lastOp'.key = k

NoneExpired == \A i \in 1..Len(cache) : now - cache[i].timestamp <= ttl

WasSet(k) == lastSet[k] # NeverSet

Elapsed(k) == now - lastSet[k].at

\* C1: LRU eviction. The iteration order of the map is the order of last use
\* (set or get hit), least recently used first; and with maxSize >= 2 and no
\* entry expired, a set of a brand-new key that finds maxSize entries stored
\* removes exactly one entry, the one whose last use is oldest.
C1_LruEviction ==
    /\ [](KeysOf(cache) = useOrder)
    /\ [][\A k \in Keys :
            (IsSet(k) /\ maxSize >= 2 /\ NoneExpired /\ ~MapHas(cache, k) /\ Len(cache) = maxSize)
            => /\ KeySet(cache) \ KeySet(cache') = {useOrder[1]}
               /\ KeySet(cache') = (KeySet(cache) \ {useOrder[1]}) \cup {k}]_vars

\* the state after set(a); set(b); get(a); set(c) with maxSize = 2: b was set
\* after a was, a was read since, and the set of c removed b
C1_Witness ==
    /\ maxSize = 2
    /\ lastOp.op = "set" /\ lastOp.key = "c" /\ lastOp.removed = {"b"}
    /\ KeysOf(cache) = <<"a", "c">>
    /\ cache[1].timestamp < lastSet["b"].at

\* C2: size bound. With maxSize >= 1 the number of stored entries is at most
\* maxSize in every state, so after every set.
C2_SizeBound == maxSize >= 1 => Len(cache) <= maxSize

C2_Witness ==
    /\ maxSize >= 1
    /\ lastOp.op = "set" /\ lastOp.removed # {}
    /\ Len(cache) = maxSize

\* C3: small capacities. With maxSize 0 or 1 the number of stored entries never
\* exceeds maxSize after any set.
C3_SmallCapacityBound == maxSize <= 1 => Len(cache) <= maxSize

\* C4 as stated: a get(k) made more than ttl after the last set(k, v) returns
\* absent and leaves k removed, a has(k) made then returns false, and a get(k)
\* made at most ttl after the last set(k, v) returns v. (Stated for maxSize >= 1,
\* where set keeps the size bound.)
C4_TtlExpiryAsStated ==
    \A k \in Keys :
        (maxSize >= 1 /\ lastOp.key = k /\ WasSet(k)) =>
            /\ (lastOp.op = "get" /\ Elapsed(k) > ttl) => (lastOp.ret = Undefined /\ ~MapHas(cache, k))
            /\ (lastOp.op = "has" /\ Elapsed(k) > ttl) => (lastOp.ret = "false" /\ ~MapHas(cache, k))
            /\ (lastOp.op = "get" /\ Elapsed(k) <= ttl) => lastOp.ret = lastSet[k].val

\* C4, amended: a get(k) made more than ttl after the last set(k, v) returns
\* absent and leaves k removed, a has(k) made then returns false; a get(k) made
\* at most ttl after the last set(k, v) returns v when k is still stored, that
\* is when no delete, clear, dispose or eviction has removed k since that set,
\* and absent when it is not.
C4_TtlExpiry ==
    [][\A k \in Keys :
        WasSet(k) =>
            /\ (IsGet(k) /\ Elapsed(k) > ttl) => (lastOp'.ret = Undefined /\ ~MapHas(cache', k))
            /\ (IsHas(k) /\ Elapsed(k) > ttl) => (lastOp'.ret = "false" /\ ~MapHas(cache', k))
            /\ (IsGet(k) /\ Elapsed(k) <= ttl /\ MapHas(cache, k))
               => (lastOp'.ret = lastSet[k].val /\ MapHas(cache', k))
            /\ (IsGet(k) /\ ~MapHas(cache, k)) => lastOp'.ret = Undefined]_vars

\* a get at exactly ttl after the set returned the value
C4_Witness ==
    \E k \in Keys :
        /\ lastOp.op = "get" /\ lastOp.key = k
        /\ Elapsed(k) = ttl
        /\ lastOp.ret = lastSet[k].val

\* C5: has(k) returns true exactly when get(k) would return a value, and it
\* never changes the iteration order: on a live key the map is unchanged, so
\* the next set of a new key evicts what it would have evicted without the
\* has; on an expired key only that key leaves.
C5_HasKeepsOrder ==
    [][\A k \in Keys :
        IsHas(k) =>
            /\ (lastOp'.ret = "true") <=> (GetResult(cache, k, now, ttl) # Undefined)
            /\ lastOp'.ret = "true" =>
                /\ cache' = cache
                /\ \A k2 \in Keys \ KeySet(cache), d \in Values :
                      CacheSet(cache', k2, d, now, maxSize) = CacheSet(cache, k2, d, now, maxSize)
            /\ lastOp'.ret = "false" => cache' = SelectSeq(cache, LAMBDA e : e.key # k)]_vars

\* has on the least recently used key of a full cache: it is still the first
C5_Witness ==
    /\ lastOp.op = "has" /\ lastOp.ret = "true"
    /\ maxSize >= 2 /\ Len(cache) = maxSize
    /\ cache[1].key = lastOp.key

\* C6: a sweep removes the entries older than ttl and nothing else: the
\* others stay, with their value, timestamp and order, whatever the size.
C6_SweepOnlyExpired ==
    [][lastOp'.op = "sweep" =>
        cache' = SelectSeq(cache, LAMBDA e : e.timestamp + ttl >= now)]_vars

\* a sweep removed an entry and kept another
C6_Witness ==
    /\ lastOp.op = "sweep"
    /\ lastOp.removed # {}
    /\ cache # <<>>

\* C7: after clear() every get of a previously set key returns absent and a
\* second clear changes nothing; after dispose() the timer is cancelled and the
\* cache empty, the first time and every further time.
C7_ClearDisposeIdempotent ==
    /\ [][lastOp'.op = "clear" =>
            /\ \A k \in Keys : WasSet(k) => GetResult(cache', k, now', ttl) = Undefined
            /\ ClearCache(cache') = cache']_vars
    /\ [][lastOp'.op = "dispose" =>
            /\ cleanupTimer' = FALSE
            /\ cache' = <<>>
            /\ (disposed /\ cache = <<>>) => (cache' = cache /\ cleanupTimer' = cleanupTimer)]_vars

\* a second dispose, of a cache that has been used
C7_Witness ==
    /\ lastOp.op = "dispose" /\ lastOp.ret = "no timer"
    /\ disposed
    /\ \E k \in Keys : WasSet(k)

\* C8: once dispose() has returned no sweep runs again, also when set is
\* called on the disposed cache.
C8_NoSweepAfterDispose == [][disposed => lastOp'.op # "sweep"]_vars

\* a set on a disposed cache
C8_Witness ==
    /\ disposed
    /\ lastOp.op = "set"
    /\ cache # <<>>

\* C33: a set of a key that is stored removes no other entry, also at
\* maxSize entries: the key goes last with the new value and the time of the
\* call, the other entries keep their order; a set of a key that is not
\* stored removes at most one entry, the first of the map, and only when the
\* map holds maxSize entries or more.
C33_UpdateEvictsNothing ==
    [][\A k \in Keys :
         /\ (IsSet(k) /\ MapHas(cache, k)) =>
               /\ KeySet(cache') = KeySet(cache)
               /\ lastOp'.removed = {}
               /\ cache' = Append(SelectSeq(cache, LAMBDA e : e.key # k),
                                  [key |-> k, data |-> lastSet'[k].val, timestamp |-> now])
         /\ (IsSet(k) /\ ~MapHas(cache, k)) =>
               /\ Cardinality(KeySet(cache) \ KeySet(cache')) <= 1
               /\ KeySet(cache) \ KeySet(cache') # {} =>
                     /\ Len(cache) >= maxSize
                     /\ KeySet(cache) \ KeySet(cache') = {cache[1].key}
               /\ (Len(cache) >= maxSize /\ cache # <<>>) =>
                     KeySet(cache) \ KeySet(cache') = {cache[1].key}]_vars

\* the first of two stored keys is set again at maxSize 2, later than both were set
C33_Witness ==
    /\ maxSize = 2
    /\ Len(cache) = 2
    /\ lastOp.op = "set" /\ lastOp.removed = {}
    /\ cache[2].key = lastOp.key
    /\ cache[2].timestamp = now
    /\ cache[1].timestamp < now
    /\ \A k \in Keys : WasSet(k) <=> MapHas(cache, k)

\* C38: a get that finds its key moves the entry last and keeps its
\* timestamp, so every stored entry carries the time of the last set of its
\* key, however often it was read; get(k) of a stored key returns the value
\* exactly when no more than ttl has passed since the last set(k).
C38_GetKeepsAge ==
    /\ [](\A n \in 1..Len(cache) : cache[n].timestamp = lastSet[cache[n].key].at)
    /\ [][\A k \in Keys :
            (IsGet(k) /\ MapHas(cache, k)) =>
                /\ lastOp'.ret # Undefined <=> now - lastSet[k].at <= ttl
                /\ lastOp'.ret # Undefined =>
                      /\ lastOp'.ret = lastSet[k].val
                      /\ cache'[Len(cache')] =
                            [key |-> k, data |-> lastSet[k].val, timestamp |-> lastSet[k].at]
                      /\ KeySet(cache') = KeySet(cache)
                /\ lastOp'.ret = Undefined => ~MapHas(cache', k)]_vars

\* a get hit one tick after the set: the entry is last and still carries the time of the set
C38_Witness ==
    /\ lastOp.op = "get" /\ lastOp.ret # Undefined
    /\ Len(cache) = 2
    /\ cache[2].key = lastOp.key
    /\ cache[2].timestamp < now
    /\ cache[2].timestamp < cache[1].timestamp

(***************************************************************************)
(* Properties of the parser                                                *)
(***************************************************************************)
MatchesAnyPattern(u) ==
    MatchHttps(u).ok \/ MatchSshWithPort(u).ok \/ MatchSshStandard(u).ok \/ MatchSshNoPort(u).ok

\* the hostname group of the first pattern that matches
HostnameOf(u) ==
    IF MatchHttps(u).ok THEN MatchHttps(u).hostname
    ELSE IF MatchSshWithPort(u).ok THEN MatchSshWithPort(u).hostname
    ELSE IF MatchSshStandard(u).ok THEN MatchSshStandard(u).hostname
    ELSE MatchSshNoPort(u).hostname

\* C9: the four literal inputs of the specification give the results it lists.
C9_LiteralExamples ==
    parsed =>
        /\ url = "https://github.com/acme/widget.git" =>
              /\ repoInfo.platform = "github"
              /\ repoInfo.owner = "acme"
              /\ repoInfo.repo = "widget"
              /\ repoInfo.baseUrl = "https://api.github.com"
        /\ url = "git@gitlab.com:acme/widget.git" =>
              /\ repoInfo.platform = "gitlab"
              /\ repoInfo.owner = "acme"
              /\ repoInfo.repo = "widget"
              /\ repoInfo.baseUrl = "https://gitlab.com/api/v4"
        /\ url = "ssh://git@192.168.1.50:2222/acme/widget.git" =>
              /\ repoInfo.platform = "local-gitlab"
              /\ repoInfo.owner = "acme"
              /\ repoInfo.repo = "widget"
              /\ repoInfo.hostUrl = "http://192.168.1.50"
              /\ repoInfo.baseUrl = "http://192.168.1.50/api/v4"
        /\ url = "ssh://git@git.example.com/acme/widget.git" =>
              /\ repoInfo.platform = "local-gitlab"
              /\ repoInfo.hostUrl = "https://git.example.com"

C9_Witness ==
    /\ parsed
    /\ url = "ssh://git@192.168.1.50:2222/acme/widget.git"
    /\ repoInfo.platform = "local-gitlab"

\* the fixed API base of the forge whose domain the hostname contains
HasForgeApiBase(info, hostname) ==
    /\ Includes(hostname, "github.com") => info.baseUrl = "https://api.github.com"
    /\ Includes(hostname, "gitlab.com") => info.baseUrl = "https://gitlab.com/api/v4"
    /\ Includes(hostname, "gitee.com") => info.baseUrl = "https://gitee.com/api/v5"

\* C10 as stated: for every URL of one of the four forms whose hostname
\* contains github.com, gitlab.com or gitee.com, the result has that forge's
\* fixed API base and hostUrl is "https://" followed by the hostname.
C10_PublicForgeAsStated ==
    (parsed /\ MatchesAnyPattern(url) /\ isKnownPlatform(HostnameOf(url))) =>
        /\ HasForgeApiBase(repoInfo, HostnameOf(url))
        /\ repoInfo.hostUrl = "https://" \o HostnameOf(url)

\* C10, amended: for every such URL the result has that forge's fixed API base;
\* hostUrl is "https://" followed by the hostname for the three SSH forms, and
\* for the HTTP(S) form it is the URL's own scheme followed by the hostname,
\* so "http://" followed by the hostname for an http:// URL.
C10_PublicForge ==
    (parsed /\ MatchesAnyPattern(url) /\ isKnownPlatform(HostnameOf(url))) =>
        /\ HasForgeApiBase(repoInfo, HostnameOf(url))
        /\ IF StartsWith(url, "http://")
           THEN repoInfo.hostUrl = "http://" \o HostnameOf(url)
           ELSE repoInfo.hostUrl = "https://" \o HostnameOf(url)

\* an http:// URL of a public forge has been parsed
C10_Witness ==
    /\ parsed
    /\ url = "http://gitee.com/acme/widget.git"
    /\ repoInfo.platform = "gitee"
    /\ repoInfo.hostUrl = "http://gitee.com"

\* the scheme of a host URL
SchemeOf(hostUrl) ==
    IF StartsWith(hostUrl, "https://") THEN "https"
    ELSE IF StartsWith(hostUrl, "http://") THEN "http"
    ELSE "other"

\* a string of decimal digits as a number
DigitVal(c) == CHOOSE n \in 0..9 : CharAt("0123456789", n + 1) = c

RECURSIVE ToNat(_)
ToNat(s) == IF Len(s) = 0 THEN 0 ELSE 10 * ToNat(SubSeq(s, 1, Len(s) - 1)) + DigitVal(CharAt(s, Len(s)))

\* the dot-separated labels of a hostname
RECURSIVE Labels(_)
Labels(h) ==
    LET dot == FirstIn(h, {"."})
    IN  IF dot > Len(h) THEN <<h>> ELSE <<SubSeq(h, 1, dot - 1)>> \o Labels(From(h, dot + 1))

IsNumber(s) == Len(s) \in 1..3 /\ \A i \in 1..Len(s) : CharAt(s, i) \in Digits

IsIPv4(h) ==
    /\ Len(Labels(h)) = 4
    /\ \A i \in 1..4 : IsNumber(Labels(h)[i]) /\ ToNat(Labels(h)[i]) <= 255

\* 10.0.0.0/8, 172.16.0.0/12, 192.168.0.0/16
InPrivateRange(h) ==
    LET o == [i \in 1..4 |-> ToNat(Labels(h)[i])]
    IN  \/ o[1] = 10
        \/ o[1] = 172 /\ o[2] \in 16..31
        \/ o[1] = 192 /\ o[2] = 168

\* a name whose first labels read like the start of a private address
HasPrivateLabels(h) ==
    LET l == Labels(h)
    IN  \/ Len(l) >= 2 /\ l[1] = "10"
        \/ Len(l) >= 3 /\ l[1] = "192" /\ l[2] = "168"
        \/ Len(l) >= 3 /\ l[1] = "172" /\ Len(l[2]) = 2 /\ IsNumber(l[2]) /\ ToNat(l[2]) \in 16..31

SelfHosted(u) == MatchesAnyPattern(u) /\ ~isKnownPlatform(HostnameOf(u))

\* C11 as stated: for every URL of one of the four forms whose host is not a
\* public forge, the scheme of hostUrl is http if and only if the hostname is
\* localhost or an address in 10.0.0.0/8, 172.16.0.0/12 or 192.168.0.0/16, and
\* https otherwise.
C11_SchemeAsStated ==
    (parsed /\ SelfHosted(url)) =>
        LET h == HostnameOf(url)
            private == h = "localhost" \/ (IsIPv4(h) /\ InPrivateRange(h))
        IN  SchemeOf(repoInfo.hostUrl) = IF private THEN "http" ELSE "https"

\* C11, amended: for the three SSH forms with a host that is not a public
\* forge, the scheme of hostUrl is http if and only if the hostname is
\* localhost or starts with the labels 10., 192.168. or 172.16. to 172.31.: for
\* an IPv4 address, exactly when it lies in one of the three private ranges,
\* and also for a DNS name with such a start (10.example.com); https otherwise.
\* For the HTTP(S) form hostUrl keeps the scheme written in the URL.
C11_Scheme ==
    (parsed /\ SelfHosted(url)) =>
        LET h == HostnameOf(url)
        IN  IF MatchHttps(url).ok
            THEN SchemeOf(repoInfo.hostUrl) = (IF StartsWith(url, "https://") THEN "https" ELSE "http")
            ELSE /\ IsIPv4(h) =>
                      SchemeOf(repoInfo.hostUrl) = (IF InPrivateRange(h) THEN "http" ELSE "https")
                 /\ h = "localhost" => SchemeOf(repoInfo.hostUrl) = "http"
                 /\ (~IsIPv4(h) /\ h # "localhost") =>
                      SchemeOf(repoInfo.hostUrl) = (IF HasPrivateLabels(h) THEN "http" ELSE "https")

\* the last address of 172.16.0.0/12, in an SSH URL
C11_Witness ==
    /\ parsed
    /\ url = "git@172.31.9.9:acme/widget.git"
    /\ repoInfo.hostUrl = "http://172.31.9.9"

\* C12: for a self-hosted URL of the form ssh://git@host:port/owner/repo the
\* hostUrl is scheme://host when the port is 2222 and scheme://host:port for
\* every other port, and the API base is hostUrl followed by /api/v4.
C12_WebPort ==
    (parsed /\ MatchSshWithPort(url).ok /\ SelfHosted(url)) =>
        LET m == MatchSshWithPort(url)
            base == SchemeOf(repoInfo.hostUrl) \o "://" \o m.hostname
        IN  /\ SchemeOf(repoInfo.hostUrl) \in {"http", "https"}
            /\ m.port = "2222" => repoInfo.hostUrl = base
            /\ m.port # "2222" => repoInfo.hostUrl = base \o ":" \o m.port
            /\ repoInfo.baseUrl = repoInfo.hostUrl \o "/api/v4"

\* a self-hosted URL with another port than 2222
C12_Witness ==
    /\ parsed
    /\ url = "ssh://git@git.example.com:8022/acme/widget.git"
    /\ repoInfo.hostUrl = "https://git.example.com:8022"

\* C13: a URL of the form ssh://git@host:digits/owner/repo also matches the
\* pattern without port, and it is the rule with port that decides: the
\* hostname is taken without the port, port 2222 is left out of hostUrl, and
\* a public forge gets https://hostname.
C13_WithPortFirst ==
    (parsed /\ MatchSshWithPort(url).ok) =>
        LET m == MatchSshWithPort(url)
        IN  /\ MatchSshNoPort(url).ok
            /\ MatchSshNoPort(url).hostname = m.hostname \o ":" \o m.port
            /\ repoInfo.owner = m.owner /\ repoInfo.repo = m.repo
            /\ \E sch \in {"http://", "https://"} :
                  repoInfo.hostUrl \in {sch \o m.hostname, sch \o m.hostname \o ":" \o m.port}
            /\ m.port = "2222" => ~Includes(repoInfo.hostUrl, ":2222")
            /\ isKnownPlatform(m.hostname) => repoInfo.hostUrl = "https://" \o m.hostname

\* a public forge reached over SSH with a port
C13_Witness ==
    /\ parsed
    /\ url = "ssh://git@github.com:22/acme/widget.git"
    /\ repoInfo.hostUrl = "https://github.com"

RepoInfoKinds == {"github", "gitlab", "gitee", "local-gitlab"}

\* C14: parse returns null for every string that matches none of the four
\* patterns, and for every other string a RepoInfo of one of the four kinds.
C14_NoMatchIsNull ==
    parsed =>
        /\ ~MatchesAnyPattern(url) => repoInfo = Null
        /\ MatchesAnyPattern(url) =>
              /\ DOMAIN repoInfo = {"platform", "owner", "repo", "baseUrl", "hostUrl"}
              /\ repoInfo.platform \in RepoInfoKinds

\* an unrecognized URL has been parsed
C14_Witness ==
    /\ parsed
    /\ url = "ftp://github.com/acme/widget.git"
    /\ repoInfo = Null

(***************************************************************************)
(* Properties of the HTTP client                                           *)
(***************************************************************************)
Failed(n) == attempts[n].kind \notin {"ok", "pending"}

FailureKinds == {"status", "too large", "parse", "timeout", "network"}

\* C15: requestWithRetry makes its attempts one after another until one
\* succeeds or retries+1 of them have failed, whatever the kind of each
\* failure: every attempt but the last one made has failed, a success is
\* returned at once as the result of the call, and after retries+1 failures
\* the error of the last attempt is thrown as it is.
C15_RetryUntilSuccess ==
    (retries >= 0 /\ pc # "idle") =>
        /\ Len(attempts) <= retries + 1
        /\ \A n \in 1..Len(attempts) :
              /\ n < Len(attempts) => Failed(n)
              /\ attempts[n].kind \in FailureKinds \cup {"ok", "pending"}
              /\ attempts[n].kind = "ok" => pc = "returned"
        /\ pc = "returned" =>
              /\ attempts[Len(attempts)].kind = "ok"
              /\ promise.state = "resolved"
              /\ result = promise
        /\ pc = "thrown" =>
              /\ Len(attempts) = retries + 1
              /\ Failed(Len(attempts))
              /\ promise.state = "rejected"
              /\ result = promise
              /\ result.value.kind = attempts[Len(attempts)].kind
        /\ pc \in {"sleeping", "loop"} =>
              /\ Len(attempts) = loopIndex + (IF pc = "sleeping" THEN 1 ELSE 0)
              /\ pc = "sleeping" => Len(attempts) <= retries

\* retries = 2: two failures of different kinds, then a success that is returned
C15_Witness ==
    /\ retries = 2
    /\ pc = "returned"
    /\ Len(attempts) = 3
    /\ attempts[1].kind = "parse"
    /\ attempts[2].kind = "timeout"
    /\ result = Resolved(ParsedBody(SnippetLength))

\* C16 as stated: an attempt that fails with "response too large" or with a
\* 2xx body that is not JSON is the last attempt: no sleep and no further
\* request follow it.
C16_NotRetriedAsStated ==
    \A n \in 1..Len(attempts) :
        attempts[n].kind \in {"too large", "parse"} =>
            /\ Len(attempts) = n
            /\ Len(sleeps) < n

\* C17: the wait after the n-th failed attempt is n * 1000 ms, the next
\* attempt is not issued before that wait is over, and the last allowed
\* attempt is followed by no wait: the error is thrown at the time it was seen.
C17_LinearBackoff ==
    (retries >= 0 /\ pc # "idle") =>
        /\ \A n \in 1..Len(sleeps) : sleeps[n] = n * 1000 /\ n <= Len(attempts) /\ Failed(n)
        /\ \A n \in 2..Len(attempts) :
              /\ Len(sleeps) >= n - 1
              /\ attempts[n].issued >= attempts[n - 1].done + (n - 1) * 1000
        /\ pc = "sleeping" => Len(sleeps) = Len(attempts)
        /\ pc = "thrown" =>
              /\ Len(sleeps) = retries
              /\ clock = attempts[Len(attempts)].done

\* the third attempt, after waits of 1000 and 2000 ms, the second timer late
C17_Witness ==
    /\ pc = "awaiting"
    /\ Len(attempts) = 3
    /\ sleeps = <<1000, 2000>>
    /\ attempts[2].issued = 1000
    /\ attempts[3].issued = 4000

\* C18: a request resolves with the parsed body exactly when the response
\* ended with a 2xx status, never exceeded 10 MiB and its body is JSON. It
\* fails with the status, the status text and at most 500 characters of the
\* body when it ended with another status; with "too large", the request
\* destroyed, as soon as more than 10 MiB have arrived; with a parse error
\* when a 2xx body is not JSON; with a timeout, the request destroyed, when
\* the timeout fires.
C18_RequestOutcome ==
    (req.phase # "none") =>
        /\ promise.state = "resolved" <=>
              /\ req.phase = "ended"
              /\ req.statusCode \in 200..299
              /\ req.totalLength <= 10 * 1024 * 1024
              /\ req.parsed = "ok"
        /\ promise.state = "resolved" => promise.value = ParsedBody(req.totalLength)
        /\ (req.phase = "ended" /\ req.statusCode \notin 200..299) =>
              /\ promise.state = "rejected"
              /\ promise.value.kind = "status"
              /\ promise.value.statusCode = req.statusCode
              /\ promise.value.statusMessage = StatusMessage[req.statusCode]
              /\ promise.value.body <= 500
              /\ promise.value.body = (IF req.totalLength <= 500 THEN req.totalLength ELSE 500)
        /\ req.totalLength > 10 * 1024 * 1024 =>
              /\ req.destroyed
              /\ promise.state = "rejected"
              /\ promise.value.kind \in {"too large", "timeout"}
              /\ promise.value.kind = "timeout" => req.timedOut
        /\ (req.phase = "ended" /\ req.statusCode \in 200..299 /\ req.parsed = "failed") =>
              promise = Rejected(ParseError)
        /\ req.timedOut =>
              /\ req.destroyed
              /\ promise.state = "rejected"
              /\ promise.value.kind \in {"timeout", "too large"}
        /\ promise.state = "rejected" =>
              CASE promise.value.kind = "too large" -> req.totalLength > 10 * 1024 * 1024
                [] promise.value.kind = "timeout" -> req.timedOut
                [] promise.value.kind = "parse" -> req.phase = "ended" /\ req.parsed = "failed"
                [] promise.value.kind = "status" -> req.phase = "ended" /\ req.statusCode \notin 200..299
                [] promise.value.kind = "network" -> req.phase = "failed"

\* a body of exactly 10 MiB with status 299 is accepted and parsed
C18_Witness ==
    /\ req.phase = "ended"
    /\ req.statusCode = 299
    /\ req.totalLength = 10 * 1024 * 1024
    /\ promise = Resolved(ParsedBody(10 * 1024 * 1024))

(***************************************************************************)
(* Properties of fetchIssues                                               *)
(***************************************************************************)
\* the number of issues in the first n pages received
RECURSIVE Received(_)
Received(n) ==
    IF n = 0 THEN 0
    ELSE Received(n - 1) + (IF pageLengths[n] > 0 THEN pageLengths[n] ELSE 0)

\* the page received for the n-th request ends the paging
Stops(n) ==
    \/ pageLengths[n] <= 0
    \/ pageLengths[n] < (IF maxIssues < 50 THEN maxIssues ELSE 50)
    \/ Received(n) >= maxIssues

\* the n-th issue of the repository, as the platform's Issue
ExpectedIssue(n) ==
    [id |-> IF forgeKind = "gitee" THEN 1000 + n ELSE n, title |-> <<"title", n>>, number |-> n,
     state |-> "open", url |-> IF forgeKind = "gitee" THEN <<"html", n>> ELSE <<"web", n>>]

\* C19: fetchIssues asks for pages 1, 2, ... of min(maxCount, 50) items, and
\* asks for a further page only while no page has been empty, no list, or
\* shorter than asked and fewer than maxCount issues have been received; it
\* returns the issues of the pages received, normalized and in order, cut to
\* the first maxCount.
C19_Paging ==
    (fetchPc # "idle") =>
        /\ \A n \in 1..Len(requests) :
              /\ requests[n] = [page |-> n, per_page |-> IF maxIssues < 50 THEN maxIssues ELSE 50]
              /\ n < Len(requests) => ~Stops(n)
        /\ (fetchPc \in {"done", "returned"} /\ Len(requests) > 0) => Stops(Len(requests))
        /\ (fetchPc \in {"done", "returned"} /\ Len(requests) = 0) => maxIssues <= 0
        /\ Len(pageLengths) = Len(requests) - (IF fetchPc \in {"awaiting", "thrown"} THEN 1 ELSE 0)
        /\ fetchPc = "returned" =>
              /\ Len(issuesOut) <= maxIssues
              /\ Len(issuesOut) = (IF Received(Len(pageLengths)) < maxIssues
                                   THEN Received(Len(pageLengths)) ELSE maxIssues)
              /\ \A n \in 1..Len(issuesOut) : issuesOut[n] = ExpectedIssue(n)

\* GitLab, maxCount 51: a full page of 50, then a page of 51 of which one is kept
C19_Witness ==
    /\ fetchPc = "returned"
    /\ forgeKind = "gitlab"
    /\ maxIssues = 51
    /\ pageLengths = <<50, 51>>
    /\ Len(allIssues) = 101
    /\ Len(issuesOut) = 51
    /\ issuesOut[51].id = 51

\* every page received so far had exactly the number of items asked for
AlwaysFullPages == \A n \in 1..Len(pageLengths) : pageLengths[n] = requests[n].per_page

\* ceil(a / b) for a, b >= 1
CeilDiv(a, b) == CHOOSE q \in 1..a : q * b >= a /\ (q - 1) * b < a

\* C20: when every page has exactly perPage items and maxCount >= 1,
\* fetchIssues makes ceil(maxCount / min(maxCount, 50)) requests and returns
\* exactly maxCount issues; for maxCount 120, pages 1, 2, 3 and 120 issues
\* out of the 150 received.
C20_Termination ==
    (fetchPc = "returned" /\ maxIssues >= 1 /\ AlwaysFullPages) =>
        /\ Len(requests) = CeilDiv(maxIssues, IF maxIssues < 50 THEN maxIssues ELSE 50)
        /\ Len(issuesOut) = maxIssues
        /\ maxIssues = 120 =>
              /\ [n \in 1..Len(requests) |-> requests[n].page] = <<1, 2, 3>>
              /\ Len(allIssues) = 150
              /\ issuesOut = SubSeq(allIssues, 1, 120)

\* maxCount 120 against full pages
C20_Witness ==
    /\ fetchPc = "returned"
    /\ maxIssues = 120
    /\ pageLengths = <<50, 50, 50>>
    /\ Len(issuesOut) = 120


\* C21: one fetchIssues call asks for pages 1, 2, 3, ... in turn; it asks for
\* the next page only when every page asked for has been answered and its
\* items appended, so it never has two page requests in flight.
C21_SequentialPages ==
    [][/\ requests' # requests =>
            /\ requests' = Append(requests, [page |-> Len(requests) + 1, per_page |-> perPage])
            /\ fetchPc # "awaiting"
            /\ Len(pageLengths) = Len(requests)
            /\ Len(allIssues) = Received(Len(pageLengths))
       /\ Len(requests') - Len(pageLengths') \in {0, 1}
       /\ fetchPc' = "awaiting" => Len(requests') = Len(pageLengths') + 1]_vars

\* the third page is in flight
C21_Witness ==
    /\ fetchPc = "awaiting"
    /\ [n \in 1..Len(requests) |-> requests[n].page] = <<1, 2, 3>>
    /\ pageLengths = <<50, 50>>
    /\ Len(allIssues) = 100

\* C22 as stated: once the cancellation signal is raised during a fetch, no
\* page is requested beyond the one then in flight, and the fetch ends with
\* the issues accumulated so far, not with an error.
C22_CancelStopsPagingAsStated ==
    progress.isCancellationRequested =>
        /\ Len(requests) <= progress.requestsAtCancel
        /\ progress.outcome # "cancelled"
        /\ fetchPc = "returned" => progress.outcome \in {"pending", "issues"}


(***************************************************************************)
(* Properties of the service                                               *)
(***************************************************************************)
NoNewEntry == \A k \in DOMAIN issueCache' : k \in DOMAIN issueCache /\ issueCache'[k] = issueCache[k]

\* C23: whenever the token resolved for the repository's forge is absent,
\* CommitHelperService.fetchIssues throws the missing-token error: it makes
\* no request, stores nothing in the issue cache and returns no list.
C23_MissingTokenThrows ==
    [][(serviceCall'.op # "none" /\ serviceCall'.tokenAsked /\ serviceCall'.token \in {Undefined, ""}) =>
            /\ serviceCall'.result = [kind |-> "missing token", platform |-> serviceCall'.info.platform]
            /\ ~serviceCall'.requested
            /\ ~serviceCall'.wrote
            /\ NoNewEntry
            /\ IssueCacheKey(serviceCall'.info) \notin DOMAIN issueCache']_vars

\* the token resolved is the empty string
C23_Witness ==
    /\ serviceCall.op = "fetchIssues"
    /\ serviceCall.tokenAsked
    /\ serviceCall.token = ""
    /\ serviceCall.result = MissingToken(serviceCall.info)
    /\ DOMAIN issueCache # {}

\* C27 as stated: a list returned from the issue cache was fetched for the
\* forge kind, owner and repository it is returned for.
C27_CachePerRepoAsStated ==
    (serviceCall.op # "none" /\ serviceCall.hit) =>
        serviceCall.result.list.of =
            <<serviceCall.info.platform, serviceCall.info.owner, serviceCall.info.repo>>

PlatformNames ==
    {"github", "gitlab", "local-gitlab", "gitee", "bitbucket", "GitHub", "local", "unknown", ""}

\* C28: getPlatform gives a platform for github, gitlab, local-gitlab and
\* gitee and null for every other name; for a repository whose forge kind has
\* no platform and no cached list, fetchIssues throws the unsupported-platform
\* error without resolving a token or making a request.
C28_UnsupportedPlatform ==
    /\ \A name \in PlatformNames :
          getPlatform(name) # "null" <=> name \in {"github", "gitlab", "local-gitlab", "gitee"}
    /\ \A name \in {"github", "gitlab", "local-gitlab", "gitee"} : getPlatform(name) = name
    /\ (serviceCall.op # "none" /\ ~serviceCall.hit
            /\ serviceCall.info.platform \notin {"github", "gitlab", "local-gitlab", "gitee"}) =>
          /\ serviceCall.result = [kind |-> "unsupported platform", platform |-> serviceCall.info.platform]
          /\ ~serviceCall.tokenAsked
          /\ ~serviceCall.requested
          /\ ~serviceCall.wrote
          /\ \A k \in DOMAIN issueCache : issueCache[k].of[1] # serviceCall.info.platform

\* a Bitbucket repository, with lists of other forges in the cache
C28_Witness ==
    /\ serviceCall.op = "fetchIssues"
    /\ serviceCall.info.platform = "bitbucket"
    /\ serviceCall.result = Unsupported(serviceCall.info)
    /\ DOMAIN issueCache # {}

\* C35: a fetchIssues that finds an entry under the key of its repository
\* returns the stored list, the empty one too, resolves no token, makes no
\* request and leaves the cache as it is; and the entry a successful call
\* stores is the list that call returned.
C35_IssueCacheHit ==
    /\ [][(serviceCall'.op = "fetchIssues" /\ IssueCacheKey(serviceCall'.info) \in DOMAIN issueCache) =>
            /\ serviceCall'.hit
            /\ serviceCall'.result =
                  [kind |-> "issues", list |-> issueCache[IssueCacheKey(serviceCall'.info)]]
            /\ ~serviceCall'.tokenAsked
            /\ ~serviceCall'.requested
            /\ ~serviceCall'.wrote
            /\ issueCache' = issueCache]_vars
    /\ []((serviceCall.op # "none" /\ serviceCall.wrote) =>
            /\ IssueCacheKey(serviceCall.info) \in DOMAIN issueCache
            /\ serviceCall.result =
                  [kind |-> "issues", list |-> issueCache[IssueCacheKey(serviceCall.info)]]
            /\ serviceCall.result.list.of =
                  <<serviceCall.info.platform, serviceCall.info.owner, serviceCall.info.repo>>)

\* the empty list of the repository is returned from the cache
C35_Witness ==
    /\ serviceCall.op = "fetchIssues"
    /\ serviceCall.hit
    /\ serviceCall.result.list.length = 0
    /\ serviceCall.result.list.of =
          <<serviceCall.info.platform, serviceCall.info.owner, serviceCall.info.repo>>

\* C36: a call whose fetch fails writes nothing: no entry is under its key
\* afterwards, every other entry is as before, a fetchIssues leaves the cache
\* as it was and a refreshIssues leaves it without the entry it deleted; a
\* fetchIssues for the same repository that comes next finds no entry, resolves
\* a token and, given one, goes to the forge.
C36_FailedFetchStoresNothing ==
    /\ [][(serviceCall'.op # "none" /\ serviceCall'.result = [kind |-> "fetch failed"]) =>
            LET key == IssueCacheKey(serviceCall'.info)
            IN  /\ serviceCall'.requested
                /\ ~serviceCall'.wrote
                /\ key \notin DOMAIN issueCache'
                /\ DOMAIN issueCache' = DOMAIN issueCache \ {key}
                /\ \A k \in DOMAIN issueCache' : issueCache'[k] = issueCache[k]
                /\ serviceCall'.op = "fetchIssues" => issueCache' = issueCache
                /\ serviceCall'.op = "refreshIssues" =>
                      (serviceCall'.deleted <=> key \in DOMAIN issueCache)]_vars
    /\ [][(/\ serviceCall.op # "none"
           /\ serviceCall.result = [kind |-> "fetch failed"]
           /\ serviceCall'.op = "fetchIssues"
           /\ serviceCall'.info = serviceCall.info) =>
              /\ ~serviceCall'.hit
              /\ serviceCall'.tokenAsked
              /\ serviceCall'.token \notin {Undefined, ""} => serviceCall'.requested]_vars

\* a refreshIssues deleted the list of its repository and its fetch failed
C36_Witness ==
    /\ serviceCall.op = "refreshIssues"
    /\ serviceCall.deleted
    /\ serviceCall.result = FetchFailed
    /\ IssueCacheKey(serviceCall.info) \notin DOMAIN issueCache

(***************************************************************************)
(* Properties of getAccessToken                                            *)
(***************************************************************************)
\* the sources that hold a non-empty string
Present == settings.set \cup environment

Called == tokenCall.platform # "none"

\* the explicit setting of a forge kind and its environment variable
ExplicitSetting(kind) ==
    CASE kind = "github" -> "githubToken"
      [] kind = "gitlab" -> "gitlabToken"
      [] kind = "local-gitlab" -> "localGitlabToken"
      [] kind = "gitee" -> "giteeToken"

EnvironmentVariable(kind) ==
    CASE kind = "github" -> "GITHUB_TOKEN"
      [] kind = "gitlab" -> "GITLAB_TOKEN"
      [] kind = "local-gitlab" -> "LOCAL_GITLAB_TOKEN"
      [] kind = "gitee" -> "GITEE_TOKEN"

\* the host-keyed settings of a host, in the order of the claim
HostKeyed(host) ==
    <<"gitlabToken." \o host, "localGitlabToken." \o host, "gitlab." \o host \o ".token", "tokens." \o host>>

HostOf(hostUrl) ==
    CASE hostUrl = "http://192.168.1.50" -> "192.168.1.50"
      [] hostUrl = "https://git.example.com:8022" -> "git.example.com"

\* the sources the self-hosted variant falls back to
Fallbacks(hostUrl) == {"gitlabToken", "GITLAB_TOKEN"} \cup Range(HostKeyed(HostOf(hostUrl)))

\* the precedence of C24 for the call that has just returned
Precedence ==
    LET setting == ExplicitSetting(tokenCall.platform)
        variable == EnvironmentVariable(tokenCall.platform)
    IN  /\ (setting \in Present /\ variable \in Present) => tokenCall.token = TokenOf(setting)
        /\ (setting \notin Present /\ variable \in Present) => tokenCall.token = TokenOf(variable)
        /\ (/\ setting \notin Present
            /\ variable \notin Present
            /\ tokenCall.platform = "local-gitlab" => Fallbacks(tokenCall.hostUrl) \cap Present = {})
              => tokenCall.token = Undefined

\* C24 as stated: whenever getAccessToken returns, it returns the explicit
\* setting when setting and environment variable are both present, the
\* environment variable when only it is present, and absent when neither (nor,
\* for the self-hosted variant, a fallback source) is present.
C24_PrecedenceAsStated == Called => Precedence

\* C24, amended: when no token is cached under the key of the call,
\* getAccessToken returns the explicit setting when setting and environment
\* variable are both present, the environment variable when only it is
\* present, and absent when neither (nor a fallback source of the self-hosted
\* variant) is present; when a token is cached under the key it returns the
\* cached token, whatever the sources hold by then.
C24_Precedence ==
    Called =>
        /\ ~tokenCall.hit => Precedence
        /\ tokenCall.hit =>
              /\ tokenCall.key \in DOMAIN tokenCache[tokenCall.platform]
              /\ tokenCall.token = tokenCache[tokenCall.platform][tokenCall.key].token
              /\ tokenCall.token # Undefined

\* the self-hosted variant resolves with both its setting and its variable present
C24_Witness ==
    /\ Called
    /\ ~tokenCall.hit
    /\ tokenCall.platform = "local-gitlab"
    /\ {"localGitlabToken", "LOCAL_GITLAB_TOKEN"} \subseteq Present
    /\ tokenCall.token = TokenOf("localGitlabToken")

\* the order of C25 for a self-hosted host
SelfHostedOrder(host) ==
    <<"localGitlabToken", "LOCAL_GITLAB_TOKEN", "gitlabToken", "GITLAB_TOKEN">> \o HostKeyed(host)

\* the sources read are the first ones of the order, up to the first that is set, which is returned
FirstNonEmptyWins(order) ==
    LET read == tokenCall.consulted
    IN  /\ Len(read) \in 1..Len(order)
        /\ \A n \in 1..Len(read) : read[n] = order[n]
        /\ \A n \in 1..(Len(read) - 1) : read[n] \notin Present
        /\ IF read[Len(read)] \in Present
           THEN tokenCall.token = TokenOf(read[Len(read)])
           ELSE Len(read) = Len(order) /\ tokenCall.token = Undefined

\* C25: the self-hosted variant reads localGitlabToken, LOCAL_GITLAB_TOKEN,
\* gitlabToken, GITLAB_TOKEN, then gitlabToken.<host>, localGitlabToken.<host>,
\* gitlab.<host>.token, tokens.<host>, in this order, and returns the first that
\* is set; it reads a host-keyed setting only when the four generic sources are
\* empty; the gitlab.com variant reads gitlabToken and GITLAB_TOKEN only.
C25_SelfHostedOrder ==
    Called =>
        /\ (tokenCall.platform = "local-gitlab" /\ ~tokenCall.hit) =>
              FirstNonEmptyWins(SelfHostedOrder(HostOf(tokenCall.hostUrl)))
        /\ tokenCall.platform = "local-gitlab" =>
              \A name \in Range(tokenCall.consulted) :
                  name \in Range(HostKeyed(HostOf(tokenCall.hostUrl))) =>
                      {"localGitlabToken", "LOCAL_GITLAB_TOKEN", "gitlabToken", "GITLAB_TOKEN"}
                          \cap Present = {}
        /\ (tokenCall.platform = "gitlab" /\ ~tokenCall.hit) =>
              FirstNonEmptyWins(<<"gitlabToken", "GITLAB_TOKEN">>)
        /\ tokenCall.platform = "gitlab" =>
              Range(tokenCall.consulted) \subseteq {"gitlabToken", "GITLAB_TOKEN"}
        /\ tokenCall.hit => tokenCall.consulted = <<>>

\* two host-keyed settings of the host are set and no generic source: the earlier one is returned
C25_Witness ==
    /\ Called
    /\ tokenCall.platform = "local-gitlab"
    /\ tokenCall.hostUrl = "http://192.168.1.50"
    /\ Present = {"localGitlabToken.192.168.1.50", "tokens.192.168.1.50"}
    /\ Len(tokenCall.consulted) = 6
    /\ tokenCall.token = TokenOf("localGitlabToken.192.168.1.50")

\* C26 as stated: a token that getAccessToken returns from a token cache was
\* stored by a call for the same forge kind and the same hostUrl, and a
\* self-hosted host is never given the host-keyed token of another host.
C26_PerKindAndHostAsStated ==
    (Called /\ tokenCall.hit) =>
        /\ tokenCache[tokenCall.platform][tokenCall.key].by = <<tokenCall.platform, tokenCall.hostUrl>>
        /\ tokenCall.platform = "local-gitlab" =>
              \A r \in TokenRepos :
                  (r[1] = "local-gitlab" /\ r[2] # tokenCall.hostUrl) =>
                      \A n \in 1..4 : tokenCall.token # TokenOf(HostKeyed(HostOf(r[2]))[n])

(***************************************************************************)
(* Properties of the log record                                            *)
(***************************************************************************)
Contains(str, part) == IndexOf(str, part, 1) # 0

\* every "token=" of the string is followed by *** and then the end or an &
RECURSIVE TokenParametersStarred(_, _)
TokenParametersStarred(str, from) ==
    LET at == IndexOf(str, "token=", from)
    IN  IF at = 0 THEN TRUE
        ELSE /\ at + 8 <= Len(str)
             /\ SubSeq(str, at + 6, at + 8) = "***"
             /\ at + 8 = Len(str) \/ SubSeq(str, at + 9, at + 9) = "&"
             /\ TokenParametersStarred(str, at + 6)

Issued == outgoing # NoRequestYet

\* C29: the log record of an outgoing request of fetchIssues holds the access
\* token in none of its fields: in its url the value of every parameter whose
\* name ends in "token=" is ***, the rest of the url is as sent, and the value
\* of the Authorization header is in no field.
C29_LogRedaction ==
    Issued =>
        /\ \A field \in DOMAIN emitted : ~Contains(emitted[field], outgoing.accessToken)
        /\ TokenParametersStarred(emitted.url, 1)
        /\ "Authorization" \in DOMAIN outgoing.headers =>
              /\ \A field \in DOMAIN emitted : ~Contains(emitted[field], outgoing.headers.Authorization)
              /\ emitted.url = outgoing.url
        /\ "Authorization" \notin DOMAIN outgoing.headers =>
              /\ Contains(outgoing.url, "access_token=" \o outgoing.accessToken \o "&page=")
              /\ Contains(emitted.url, "access_token=***&page=")
              /\ Len(emitted.url) = Len(outgoing.url) - Len(outgoing.accessToken) + 3

\* a gitee request with the token in its query string
C29_Witness ==
    /\ Issued
    /\ outgoing.url = "https://gitee.com/api/v5/repos/token/my-token/issues?state=open&access_token=glpat-Ab_9.xZ&page=2&per_page=50"
    /\ emitted.url = "https://gitee.com/api/v5/repos/token/my-token/issues?state=open&access_token=***&page=2&per_page=50"

(***************************************************************************)
(* Properties of getRepoInfo                                               *)
(***************************************************************************)
HasOrigin == \E n \in 1..Len(workspace.remotes) : workspace.remotes[n].name = "origin"

\* C30: a call of getRepoInfo that reads the remotes of a repository reads
\* one remote: the one named origin when there is one, whatever its place in
\* the list, and the first of the list otherwise; it parses that remote's
\* fetch URL, or its push URL when it has no fetch URL, and returns what the
\* parser gives for it; a call answered from the cache reads no remote.
C30_RemoteSelection ==
    repoCall.op = "getRepoInfo" =>
        /\ (~repoCall.hit /\ workspace.api = "repository" /\ Len(workspace.remotes) > 0) =>
              /\ repoCall.remote \in 1..Len(workspace.remotes)
              /\ HasOrigin => workspace.remotes[repoCall.remote].name = "origin"
              /\ ~HasOrigin => repoCall.remote = 1
              /\ LET used == workspace.remotes[repoCall.remote]
                 IN  /\ used.fetchUrl # Undefined => repoCall.url = used.fetchUrl
                     /\ used.fetchUrl = Undefined => repoCall.url = used.pushUrl
                     /\ repoCall.url \in {"https://github.com/acme/widget.git",
                                          "git@github.com:acme/tools/widget.git"} =>
                           repoCall.result.platform = "github"
                     /\ repoCall.url = "https://gitlab.com/acme/widget.git" =>
                           repoCall.result.platform = "gitlab"
                     /\ repoCall.url = "ssh://git@git.example.com:8022/acme/widget.git" =>
                           repoCall.result.platform = "local-gitlab"
                     /\ repoCall.url = "https://gitee.com/acme/widget" =>
                           repoCall.result.platform = "gitee"
                     /\ repoCall.url \in {Undefined, "not a url"} => repoCall.result = Null
        /\ (repoCall.hit \/ workspace.api # "repository" \/ Len(workspace.remotes) = 0) =>
              repoCall.remote = 0
        /\ (~repoCall.hit /\ (workspace.api # "repository" \/ Len(workspace.remotes) = 0)) =>
              repoCall.result = Null

\* origin is the second remote of the list and the one that is parsed
C30_Witness ==
    /\ repoCall.op = "getRepoInfo"
    /\ ~repoCall.hit
    /\ Len(workspace.remotes) = 2
    /\ workspace.remotes[1].name = "upstream"
    /\ workspace.remotes[1].fetchUrl # Undefined
    /\ workspace.remotes[2].name = "origin"
    /\ repoCall.remote = 2
    /\ repoCall.url = "https://github.com/acme/widget.git"
    /\ repoCall.result.platform = "github"

\* C34: no token cache ever holds an absent or empty token; a call of
\* getAccessToken that resolves to absent leaves no entry under its key; and a
\* call that finds no entry under its key reads the sources as they are then,
\* so that it returns the explicit setting of its forge kind when that is set.
C34_OnlyTokensCached ==
    /\ [](\A p \in DOMAIN tokenCache : \A k \in DOMAIN tokenCache[p] :
              tokenCache[p][k].token \notin {Undefined, ""})
    /\ []((Called /\ tokenCall.token = Undefined) =>
              /\ ~tokenCall.hit
              /\ tokenCall.key \notin DOMAIN tokenCache[tokenCall.platform])
    /\ [][(tokenCall'.platform # "none"
              /\ tokenCall'.key \notin DOMAIN tokenCache[tokenCall'.platform]) =>
                /\ ~tokenCall'.hit
                /\ ExplicitSetting(tokenCall'.platform) \in settings.set =>
                      tokenCall'.token = TokenOf(ExplicitSetting(tokenCall'.platform))
                /\ tokenCall'.token # Undefined =>
                      /\ tokenCall'.key \in DOMAIN tokenCache'[tokenCall'.platform]
                      /\ tokenCache'[tokenCall'.platform][tokenCall'.key].token = tokenCall'.token]_vars

\* no source was set at first; the setting was made since, and the call returns it
C34_Witness ==
    /\ Called
    /\ ~tokenCall.hit
    /\ environment = {}
    /\ settings = [set |-> {"giteeToken"}, edits |-> 1]
    /\ tokenCall.platform = "gitee"
    /\ tokenCall.token = TokenOf("giteeToken")


(***************************************************************************)
(* Properties of clearAllCaches                                            *)
(***************************************************************************)
\* a step of clearAllCaches: it becomes the last call of the context, or it
\* empties the repo-info cache again
Clears ==
    /\ serviceCall'.op = "clearAllCaches"
    /\ serviceCall.op # "clearAllCaches" \/ (repoCache # <<>> /\ repoCache' = <<>>)

AttemptsOfPage == Len(attempts)

\* C40: a fetchIssues call with maxCount >= 1 asks for pages 1, 2, ... and for
\* at most ceil(maxCount / min(maxCount, 50)) of them, makes at most 3 attempts
\* for each, and ends, with a list or with an error; with maxCount <= 0 it
\* makes no request and returns the empty list.
C40_BoundedWork ==
    /\ [](maxIssues >= 1 =>
            /\ Len(requests) <= CeilDiv(maxIssues, IF maxIssues < 50 THEN maxIssues ELSE 50)
            /\ \A n \in 1..Len(requests) : requests[n].page = n
            /\ AttemptsOfPage <= 3)
    /\ [](maxIssues <= 0 =>
            /\ requests = <<>>
            /\ AttemptsOfPage = 0
            /\ fetchPc \in {"loop", "done", "returned"}
            /\ fetchPc = "returned" => issuesOut = <<>>)
    /\ <>(fetchPc \in {"returned", "thrown"})

\* two pages were asked for, the second came with the third attempt
C40_Witness ==
    /\ fetchPc = "returned"
    /\ maxIssues = PageCap + 1
    /\ Len(requests) = 2
    /\ AttemptsOfPage = 3
    /\ attempts[3].kind = "ok"
    /\ Len(issuesOut) = PageCap + 1


(***************************************************************************)
(* Properties of overlapping calls of fetchIssues                          *)
(***************************************************************************)
\* the calls that ended with a list they fetched, for the cache key
Fetchers(cacheKey) ==
    {c \in Ended : inFlight[c].call.wrote /\ IssueCacheKey(inFlight[c].call.info) = cacheKey}

\* C37: every call that got as far as the platform asks for its own pages 1,
\* 2, ... until its own fetch settles, whatever other calls are in progress;
\* a call fails with a fetch error only when its own fetch threw; and the
\* cache holds, under each key, the list returned by the call that ended last
\* among those that fetched one.
C37_NotCoalesced ==
    /\ [](\A c \in 1..Len(inFlight) :
            /\ inFlight[c].call.requested =>
                  /\ Len(inFlight[c].requests) >= 1
                  /\ \A n \in 1..Len(inFlight[c].requests) : inFlight[c].requests[n] = n
            /\ (c \in Ended /\ inFlight[c].call.requested) =>
                  inFlight[c].call.result.kind \in {"issues", "fetch failed"})
    /\ [](\A cacheKey \in DOMAIN issueCache :
            /\ Fetchers(cacheKey) # {}
            /\ \E c \in Fetchers(cacheKey) :
                  /\ \A d \in Fetchers(cacheKey) : inFlight[d].endedAs <= inFlight[c].endedAs
                  /\ inFlight[c].call.result = [kind |-> "issues", list |-> issueCache[cacheKey]])
    /\ [][\A c \in 1..Len(inFlight) :
            /\ inFlight'[c].requests # inFlight[c].requests =>
                  /\ c \in Awaiting
                  /\ \A d \in 1..Len(inFlight) \ {c} : inFlight'[d] = inFlight[d]
            /\ (c \in Awaiting /\ inFlight'[c].pc = "ended") =>
                  /\ inFlight'[c].requests = inFlight[c].requests
                  /\ \A d \in 1..Len(inFlight) \ {c} : inFlight'[d] = inFlight[d]
                  /\ inFlight'[c].call.wrote =>
                        issueCache'[IssueCacheKey(inFlight[c].call.info)] = inFlight'[c].call.result.list]_vars

\* the second call began while the first was awaiting its fetch; the second
\* ended first, with the issues of two pages, the first after it with the
\* empty list, which the cache holds
C37_Witness ==
    /\ Len(inFlight) = 2
    /\ inFlight[2].among = {1}
    /\ inFlight[1].call.info = inFlight[2].call.info
    /\ Ended = {1, 2}
    /\ inFlight[2].endedAs = 1
    /\ inFlight[1].endedAs = 2
    /\ Len(inFlight[1].requests) = 1
    /\ Len(inFlight[2].requests) = 2
    /\ inFlight[2].call.result.kind = "issues"
    /\ inFlight[2].call.result.list.length = 2
    /\ inFlight[1].call.result.kind = "issues"
    /\ inFlight[1].call.result.list.length = 0
    /\ issueCache[IssueCacheKey(inFlight[1].call.info)].length = 0


(***************************************************************************)
(* Properties of formatCommitMessage                                       *)
(***************************************************************************)
ReadmeAfter ==
    "feat(auth): add user authentication system\n\n- Implemented JWT token validation\n"
        \o "- Added login/logout endpoints\n- Created user session management\n\nCloses #42"

\* the README example was formatted: feat, auth, issue 42, not breaking
ReadmeExample ==
    /\ commit.stage = "written"
    /\ commit.currentMessage = ReadmeBefore
    /\ commit.type = "feat"
    /\ commit.scope = "auth"
    /\ commit.issue = 42
    /\ ~commit.isBreaking

\* C31 as stated: the README example is written back as the README shows it.
C31_ReadmeExampleAsStated == ReadmeExample => commit.value = ReadmeAfter

\* the body lines of a message: the lines from the third on, up to the first footer line
OriginalBody(message) ==
    LET lines == Split(message, 1)
        starts == {n \in 3..Len(lines) : IsFooterLine(Trim(lines[n]))}
    IN  DropTrailingBlank(SubSeq(lines, 3, IF starts = {} THEN Len(lines) ELSE Least(starts) - 1))

\* a title line, a blank line, body lines
IsMultiLine(message) ==
    LET lines == Split(message, 1)
    IN  /\ Len(lines) >= 3
        /\ Trim(lines[1]) # ""
        /\ lines[2] = ""
        /\ Len(OriginalBody(message)) >= 1

\* the line is type(scope): title, the title taken from the end of the line `first`
IsHeaderOf(line, first) ==
    \E mark \in {"", "!"} :
        LET head == commit.type
                        \o (IF Trim(commit.scope) # "" THEN "(" \o Trim(commit.scope) \o ")" ELSE "")
                        \o mark \o ": "
        IN  /\ Len(line) > Len(head)
            /\ SubSeq(line, 1, Len(head)) = head
            /\ Len(line) - Len(head) <= Len(first)
            /\ SubSeq(line, Len(head) + 1, Len(line))
                  = SubSeq(first, Len(first) - (Len(line) - Len(head)) + 1, Len(first))

\* C32 as stated: a multi-line message is written back as one header line
\* made from its first line, a blank line, its body lines once and in order,
\* and after them nothing but blank lines and footers.
C32_StructurePreservedAsStated ==
    (commit.stage = "written" /\ IsMultiLine(commit.currentMessage)) =>
        LET written == Split(commit.value, 1)
            body == OriginalBody(commit.currentMessage)
        IN  /\ IsHeaderOf(written[1], Split(commit.currentMessage, 1)[1])
            /\ Len(written) >= 2 + Len(body)
            /\ written[2] = ""
            /\ SubSeq(written, 3, 2 + Len(body)) = body
            /\ \A n \in (3 + Len(body))..Len(written) :
                  written[n] = "" \/ IsFooterLine(written[n])

====
